---- MODULE Spec2Model ----
(***************************************************************************)
(* Capture / protect / select / cleanup pipeline of unifi_timelapse.       *)
(*                                                                         *)
(* Time is a tick counter `now`; DayLen ticks make one calendar day, so    *)
(* Day(t) is the date of a timestamp and TimeOfDay(t) its time of day.     *)
(* Every Image row owns its own file (captures of one camera happen at     *)
(* distinct timestamps, so file paths are distinct).                       *)
(***************************************************************************)
EXTENDS Integers, Sequences, FiniteSets, TLC

\* ---------------------------------------------------------------- bounds
NumCameras == 2
MaxImages == 2
NumConfigs == 2
MaxNow == 3
MaxDay == 2
MaxErrors == 2
MaxDaysToCollect == 2
MaxRetention == 2
DayLen == 3
MaxInterval == 2
MaxTime == 5
HourLen == 5
NumHours == 2
MaxPerHour == 3
NumJobs == 2
MaxCrashes == 1
MaxPaths == 2
MaxBucket == 30

\* settings.max_concurrent_captures (api/config.py), scaled to the model
max_concurrent_captures == 1
\* the value the model uses for an unset (NULL) column
None == -1

Cameras == 1..NumCameras
ImageIds == 1..MaxImages
Configs == 1..NumConfigs
JobIds == 1..NumJobs

Day(t) == t \div DayLen
TimeOfDay(t) == t % DayLen

VARIABLES
    now,      \* wall clock, in ticks
    cam,      \* cameras table: Cameras -> row
    image,    \* images table and image files: ImageIds -> row
    nimg,     \* number of image ids handed out so far
    cfg,      \* multiday_configs table: Configs -> row
    cyc,      \* the running capture cycle (run_capture_cycle / capture_all)
    sw,       \* the running image sweep (cleanup_old_images)
    trail,    \* history: per camera, length of the trailing run of failed attempts
    bq,       \* inputs and result of the pure functions under check
    resp,     \* the response to the last request of the API, or the refusal
              \* of the last service call
    tl,       \* timelapses table and video files: JobIds -> row
    gen,      \* the running multi-day generation (run_multiday_timelapse_generation)
    dly,      \* the running daily generation (generate_daily_timelapse)
    uq,       \* the timelapses table carries uq_timelapse_camera_type_dates
    sched,    \* the worker's scheduler: running instances per job id
    enc,      \* the running encoder call (encode_from_images / _generate_video)
    hm        \* the health monitor: the alerter's _last_alerts and the last pass

vars == <<now, cam, image, nimg, cfg, cyc, sw, trail, bq, resp, tl, gen, dly,
          uq, sched, enc, hm>>

\* ------------------------------------------------------------ row shapes
NoImage ==
    [rec |-> FALSE, file |-> FALSE, camera |-> 0, at |-> 0, size |-> 0,
     prot |-> FALSE, reason |-> "none", cfg |-> 0, tl |-> 0]

\* len(image_data): camera c delivers snapshots of c bytes
file_size(c) == c

NewImage(c, ts) ==
    [rec |-> TRUE, file |-> TRUE, camera |-> c, at |-> ts, size |-> file_size(c),
     prot |-> FALSE, reason |-> "none", cfg |-> 0, tl |-> 0]

NewCamera(act, iv, bs, be) ==
    [active |-> act, interval |-> iv, bstart |-> bs, bend |-> be,
     lastAt |-> None, lastStatus |-> "none", errors |-> 0]

\* a MultidayConfig row as create_multiday_config stores it, with the
\* column defaults of the model class
NewConfig(c) ==
    [camera |-> c, mode |-> "historical", status |-> "idle",
     start |-> None, end |-> None, progress |-> 0, days |-> 1,
     lastGen |-> None, perHour |-> 1]

\* no row with this id (the handlers answer 404)
NoConfig == NewConfig(0)

\* no request answered yet
NoResp ==
    [op |-> "none", k |-> 0, code |-> 0, unprotected |-> 0,
     img |-> {}, count |-> 0]

NoJob ==
    [rec |-> FALSE, kind |-> "none", camera |-> 0, start |-> 0, end |-> 0,
     status |-> "none", error |-> "none", file |-> "none",
     createdAs |-> "none", startedAt |-> FALSE, completedAt |-> FALSE]

IdleGen ==
    [pc |-> "idle", todo |-> <<>>, k |-> 0, mode |-> "none", job |-> 0,
     sel |-> {}, ntf |-> "none"]

IdleDaily == [pc |-> "idle", job |-> 0, sel |-> {}]

NoResult == [success |-> FALSE, error |-> "none", raised |-> FALSE]

IdleCycle ==
    [pc |-> "idle", cams |-> <<>>,
     st |-> [c \in Cameras |-> "none"],
     ts |-> [c \in Cameras |-> 0],
     res |-> [c \in Cameras |-> NoResult],
     results |-> <<>>, raised |-> FALSE, ntf |-> "none", aborted |-> FALSE]

IdleSweep ==
    [pc |-> "idle", scope |-> 0, cand |-> {}, todo |-> {}, marked |-> {},
     files |-> 0, bytes |-> 0, prot |-> 0, before |-> {}, job |-> 0]

NoBq == [kind |-> "none"]

\* the job ids WorkerManager.setup_scheduler registers
SchedJobs == {"capture_cycle", "daily_timelapse", "multiday_timelapse",
              "cleanup", "heartbeat"}

\* the worker before WorkerManager.start
IdleSched ==
    [up |-> FALSE, initial |-> "none", running |-> [id \in SchedJobs |-> 0],
     next |-> [id \in SchedJobs |-> 0], crashes |-> 0]

\* the alert types of HealthAlerter the monitor raises
AlertTypes == {"camera_down", "blank_image", "frozen_image"}

\* the health monitor after HealthMonitor.__init__: _last_alerts is empty
IdleHealth ==
    [op |-> "none",
     last |-> [c \in Cameras |-> [t \in AlertTypes |-> None]],
     unreachable |-> {}, attempted |-> {}, sent |-> {}]

\* no encoder call in progress
IdleEnc ==
    [pc |-> "idle", impl |-> "none", paths |-> <<>>, exist |-> {},
     valid |-> <<>>, mkdir |-> FALSE, temp |-> "none", list |-> <<>>,
     proc |-> "none", exit |-> "none", out0 |-> "none", out |-> "none",
     result |-> "none", diag |-> FALSE]

\* ------------------------------------------------------------- blackout
\* is_in_blackout without the overnight branch
is_in_blackout_same_day(bs, be, t) ==
    IF bs = None \/ be = None
    THEN FALSE
    ELSE bs <= t /\ t <= be

\* Camera.is_in_blackout(check_time)
is_in_blackout(bs, be, t) ==
    IF bs = None \/ be = None
    THEN FALSE
    ELSE IF bs > be
         THEN t >= bs \/ t <= be
         ELSE bs <= t /\ t <= be

InBlackout(c, t) == is_in_blackout(cam[c].bstart, cam[c].bend, TimeOfDay(t))

\* ------------------------------------------------------- small helpers
RECURSIVE SetToSeq(_)
SetToSeq(S) ==
    IF S = {} THEN <<>>
    ELSE LET m == CHOOSE x \in S : \A y \in S : x <= y
         IN <<m>> \o SetToSeq(S \ {m})

Range(s) == {s[i] : i \in 1..Len(s)}

RECURSIVE SumSizes(_)
SumSizes(S) ==
    IF S = {} THEN 0
    ELSE LET i == CHOOSE x \in S : TRUE
         IN image[i].size + SumSizes(S \ {i})

\* ------------------------------------------------------ capture service
\* the due cameras without the blackout check
DueCameras_ignoring_blackout ==
    {c \in Cameras :
        /\ cam[c].active
        /\ \/ cam[c].lastAt = None
           \/ now - cam[c].lastAt >= cam[c].interval}

\* CaptureService.get_cameras_due_for_capture: the set of due cameras ...
DueCameras ==
    {c \in Cameras :
        /\ cam[c].active
        /\ ~InBlackout(c, now)
        /\ \/ cam[c].lastAt = None
           \/ now - cam[c].lastAt >= cam[c].interval}

\* ... returned as a list (table order)
get_cameras_due_for_capture == SetToSeq(DueCameras)

\* What one fetch can do: "ok", or the exception capture_single catches:
\* httpx.TimeoutException, httpx.HTTPStatusError, an error from
\* storage.save_image, an error from the db.commit() that persists the Image.
CaptureOutcomes == {"ok", "timeout", "http", "store", "commit"}

\* CaptureResult of the early return for a camera in blackout
BlackoutResult == [success |-> FALSE, error |-> "blackout", raised |-> FALSE]

\* CaptureResult of an attempt; raised = the db.commit() of the error path
\* raised, so capture_single raises instead of returning
AttemptResult(o, r) == [success |-> (o = "ok"), error |-> o, raised |-> r]

\* consecutive_errors after an attempt.  On "commit" the success branch has
\* already assigned consecutive_errors = 0 when db.commit() raises, and the
\* error path then adds 1 to that value.
consecutive_errors_after(c, o) ==
    IF o = "ok" THEN 0
    ELSE IF o = "commit" THEN 0 + 1
    ELSE cam[c].errors + 1

\* the Camera row after capture_single's attempt
camera_after(c, ts, o) ==
    [cam[c] EXCEPT !.lastAt = ts,
                   !.lastStatus = IF o = "ok" THEN "success" ELSE "failed",
                   !.errors = consecutive_errors_after(c, o)]

\* the images table when the row added before a failing commit is kept
images_after_failed_commit_kept(c, ts, o) ==
    IF o \in {"ok", "commit"}
    THEN [image EXCEPT ![nimg + 1] = NewImage(c, ts)]
    ELSE image

\* the images table after capture_single's attempt: a row is persisted only
\* when the commit of the success branch goes through
images_after(c, ts, o) ==
    IF o = "ok"
    THEN [image EXCEPT ![nimg + 1] = NewImage(c, ts)]
    ELSE image

\* capture_single past the blackout check, as one step
capture_single(c, ts, o) ==
    /\ o = "ok" => nimg < MaxImages
    /\ o # "ok" => cam[c].errors < MaxErrors /\ trail[c] < MaxErrors
    /\ cam' = [cam EXCEPT ![c] = camera_after(c, ts, o)]
    /\ image' = images_after(c, ts, o)
    /\ nimg' = IF o = "ok" THEN nimg + 1 ELSE nimg
    /\ trail' = [trail EXCEPT ![c] = IF o = "ok" THEN 0 ELSE @ + 1]

\* number of fetches holding the semaphore
InFlight == Cardinality({c \in Cameras : cyc.st[c] = "fetching"})

\* a fan-out without the semaphore
semaphore_absent == TRUE

\* asyncio.Semaphore(max_concurrent_captures): may a waiting task enter?
semaphore_free == InFlight < max_concurrent_captures

\* gather without return_exceptions: the first exception ends capture_all
capture_all_fail_fast(cams, res) ==
    IF \E i \in 1..Len(cams) : res[cams[i]].raised
    THEN <<>>
    ELSE [i \in 1..Len(cams) |->
            [camera |-> cams[i], success |-> res[cams[i]].success,
             error |-> res[cams[i]].error]]

\* capture_all's result list: gather(return_exceptions=True) yields one
\* entry per task in input order, an exception becomes a failed CaptureResult
capture_all(cams, res) ==
    [i \in 1..Len(cams) |->
        [camera |-> cams[i],
         success |-> IF res[cams[i]].raised THEN FALSE ELSE res[cams[i]].success,
         error |-> IF res[cams[i]].raised THEN "exception" ELSE res[cams[i]].error]]

\* does capture_all itself raise?  Never: exceptions are returned by gather
capture_all_raises(cams, res) == FALSE

\* -------------------------------------------- prospective protection
\* get_active_prospective_configs(camera) restricted to the configs whose
\* collection period contains the date
CollectingFor(c, d) ==
    {k \in Configs :
        /\ cfg[k].camera = c
        /\ cfg[k].mode = "prospective"
        /\ cfg[k].status = "collecting"
        /\ cfg[k].start # None /\ cfg[k].end # None
        /\ cfg[k].start <= d /\ d <= cfg[k].end}

\* protect_images_for_prospective for every camera of `captured`: owner[c]
\* is the first matching config of camera c (0 when there is none); it takes
\* every image of that camera and date that no config owns yet
protect_images_for_prospective(captured, d, owner) ==
    [i \in ImageIds |->
        IF /\ image[i].rec
           /\ image[i].camera \in captured
           /\ owner[image[i].camera] # 0
           /\ Day(image[i].at) = d
           /\ image[i].cfg = 0
        THEN [image[i] EXCEPT !.prot = TRUE, !.reason = "prospective",
                              !.cfg = owner[image[i].camera]]
        ELSE image[i]]

Owners(captured, d) ==
    {f \in [Cameras -> Configs \cup {0}] :
        \A c \in Cameras :
            IF c \in captured /\ CollectingFor(c, d) # {}
            THEN f[c] \in CollectingFor(c, d)
            ELSE f[c] = 0}

\* ------------------------------------------------- capture cycle steps
\* run_capture_cycle up to the fan-out: the due cameras become tasks
CycleStart ==
    /\ cyc.pc = "idle"
    /\ DueCameras # {}
    /\ cyc' = [IdleCycle EXCEPT
                 !.pc = "running",
                 !.cams = get_cameras_due_for_capture,
                 !.st = [c \in Cameras |->
                           IF c \in DueCameras THEN "waiting" ELSE "none"]]
    /\ UNCHANGED <<now, cam, image, nimg, cfg, sw, trail, bq, resp, tl, gen, dly, uq, sched, enc, hm>>

\* a task passes `async with semaphore` and enters capture_single: it takes
\* its timestamp and returns at once when the camera is in blackout
TaskAcquire(c) ==
    /\ cyc.pc = "running"
    /\ cyc.st[c] = "waiting"
    /\ semaphore_free
    /\ IF InBlackout(c, now)
       THEN cyc' = [cyc EXCEPT !.st[c] = "done", !.res[c] = BlackoutResult]
       ELSE cyc' = [cyc EXCEPT !.st[c] = "fetching", !.ts[c] = now]
    /\ UNCHANGED <<now, cam, image, nimg, cfg, sw, trail, bq, resp, tl, gen, dly, uq, sched, enc, hm>>

\* the fetch of a task ends and capture_single runs to its end
TaskComplete(c, o, r) ==
    /\ cyc.pc = "running"
    /\ cyc.st[c] = "fetching"
    /\ r => o # "ok"
    /\ capture_single(c, cyc.ts[c], o)
    /\ cyc' = [cyc EXCEPT !.st[c] = "done", !.res[c] = AttemptResult(o, r)]
    /\ UNCHANGED <<now, cfg, sw, bq, resp, tl, gen, dly, uq, sched, enc, hm>>

\* ---------------------------------------------------------- notification
\* what a notify_* call of NotificationService meets: Apprise switched off,
\* the POST accepted, the POST failing, or the query for the
\* NotificationConfig rows raising
NotifyOutcomes == {"disabled", "sent", "send_failed", "query_failed"}

\* send_notification: False when apprise_enabled is off; every exception of
\* the POST is caught and gives False
send_notification(n) == n = "sent"

\* does a notify_* call raise?  The query runs outside any try
notify_raises(n) == n = "query_failed"

\* settings.min_failures_before_alert (ge=1), set to 2 in this deployment
min_failures_before_alert == 2

\* the results for which run_capture_cycle calls notify_capture_failure
failure_alerts(results) ==
    {i \in 1..Len(results) :
        /\ ~results[i].success
        /\ cam[results[i].camera].errors >= min_failures_before_alert}

\* gather returns; the rest of run_capture_cycle: the results are counted, a
\* failure notification is issued for every camera at or past the alert
\* threshold, and the images of the captured cameras are protected for the
\* collecting prospective configs.  `n` is what the notification calls of the
\* cycle meet; a call that raises ends run_capture_cycle there.
CycleEndNotify(n) ==
    /\ cyc.pc = "running"
    /\ \A c \in Range(cyc.cams) : cyc.st[c] = "done"
    /\ LET raises == capture_all_raises(cyc.cams, cyc.res)
           results == capture_all(cyc.cams, cyc.res)
           alerts == IF raises THEN {} ELSE failure_alerts(results)
           aborted == alerts # {} /\ notify_raises(n)
           captured == IF raises \/ aborted THEN {}
                       ELSE {results[i].camera : i \in {j \in 1..Len(results) : results[j].success}}
       IN /\ cyc' = [IdleCycle EXCEPT !.pc = "ended",
                                      !.cams = cyc.cams,
                                      !.results = IF raises THEN <<>> ELSE results,
                                      !.raised = raises,
                                      !.ntf = IF alerts = {} THEN "none" ELSE n,
                                      !.aborted = aborted]
          /\ \E owner \in Owners(captured, Day(now)) :
                image' = protect_images_for_prospective(captured, Day(now), owner)
    /\ UNCHANGED <<now, cam, nimg, cfg, sw, trail, bq, resp, tl, gen, dly, uq, sched, enc, hm>>

\* the rest of run_capture_cycle where Apprise is switched off (the default)
CycleEnd == CycleEndNotify("disabled")

\* run_capture_cycle returns
CycleReturn ==
    /\ cyc.pc = "ended"
    /\ cyc' = IdleCycle
    /\ UNCHANGED <<now, cam, image, nimg, cfg, sw, trail, bq, resp, tl, gen, dly, uq, sched, enc, hm>>

\* a day passes
NextDay ==
    /\ Day(now) < MaxDay
    /\ now' = now + DayLen
    /\ UNCHANGED <<cam, image, nimg, cfg, cyc, sw, trail, bq, resp, tl, gen, dly, uq, sched, enc, hm>>

\* time passes
Tick ==
    /\ now < MaxNow
    /\ now' = now + 1
    /\ UNCHANGED <<cam, image, nimg, cfg, cyc, sw, trail, bq, resp, tl, gen, dly, uq, sched, enc, hm>>


\* ------------------------------------------------------- images router
\* PUT /images/{id}/protect (protect_image)
protect_image(i, flag, reason) ==
    [image[i] EXCEPT !.prot = flag,
                     !.reason = IF flag THEN reason ELSE "none"]

ProtectImage(i, flag, reason) ==
    /\ image[i].rec
    /\ image' = [image EXCEPT ![i] = protect_image(i, flag, reason)]
    /\ UNCHANGED <<now, cam, nimg, cfg, cyc, sw, trail, bq, resp, tl, gen, dly, uq, sched, enc, hm>>

\* DELETE /images/{id} (delete_image): may the request remove the image?
\* The handler only requires the row to exist.
delete_image_allowed(i) == image[i].rec

\* delete_image: the file is removed when it exists, then the row
DeleteImage(i) ==
    /\ delete_image_allowed(i)
    /\ image' = [image EXCEPT ![i] = NoImage]
    /\ UNCHANGED <<now, cam, nimg, cfg, cyc, sw, trail, bq, resp, tl, gen, dly, uq, sched, enc, hm>>

\* ------------------------------------------------------ multiday router
\* a start request that is never turned away
collection_in_progress_ignored(k) == FALSE

\* start_prospective_collection: the check that turns a request away
collection_in_progress(k) == cfg[k].status = "collecting"

\* a collection period that runs one day longer
collection_end_date_plus_one(today, n) == today + n

\* collection_end_date = today + timedelta(days=days_to_collect - 1)
collection_end_date(today, n) == today + n - 1

\* POST /multiday/{id}/start-collection (start_prospective_collection): a
\* config that is collecting gets 400 and nothing is written
StartCollection(k, n) ==
    /\ cfg[k].camera # 0
    /\ IF collection_in_progress(k)
       THEN /\ resp' = [NoResp EXCEPT !.op = "start", !.k = k, !.code = 400]
            /\ cfg' = cfg
       ELSE /\ resp' = [NoResp EXCEPT !.op = "start", !.k = k, !.code = 200]
            /\ cfg' = [cfg EXCEPT ![k] =
                         [@ EXCEPT !.mode = "prospective",
                                   !.status = "collecting",
                                   !.start = Day(now),
                                   !.end = collection_end_date(Day(now), n),
                                   !.progress = 0,
                                   !.days = n]]
    /\ UNCHANGED <<now, cam, image, nimg, cyc, sw, trail, bq, tl, gen, dly, uq, sched, enc, hm>>

\* an UPDATE that clears is_protected only
unprotect_owned_flag_only(k) ==
    [i \in ImageIds |->
        IF image[i].rec /\ image[i].cfg = k
        THEN [image[i] EXCEPT !.prot = FALSE]
        ELSE image[i]]

\* the UPDATE of cancel_prospective_collection with unprotect_images=true
unprotect_owned(k) ==
    [i \in ImageIds |->
        IF image[i].rec /\ image[i].cfg = k
        THEN [image[i] EXCEPT !.prot = FALSE, !.reason = "none", !.cfg = 0]
        ELSE image[i]]

\* cancel_prospective_collection: the count of the images the config owns
protected_images(k) ==
    Cardinality({i \in ImageIds : image[i].rec /\ image[i].cfg = k})

\* POST /multiday/{id}/cancel-collection (cancel_prospective_collection): a
\* config that is not collecting gets 400 and nothing is written
CancelCollection(k, unprotect) ==
    /\ cfg[k].camera # 0
    /\ IF cfg[k].status # "collecting"
       THEN /\ resp' = [NoResp EXCEPT !.op = "cancel", !.k = k, !.code = 400]
            /\ UNCHANGED <<cfg, image>>
       ELSE /\ resp' = [NoResp EXCEPT
                          !.op = "cancel", !.k = k, !.code = 200,
                          !.unprotected = IF unprotect THEN protected_images(k) ELSE 0]
            /\ image' = IF unprotect THEN unprotect_owned(k) ELSE image
            /\ cfg' = [cfg EXCEPT ![k] =
                         [@ EXCEPT !.status = "idle", !.start = None,
                                   !.end = None, !.progress = 0]]
    /\ UNCHANGED <<now, cam, nimg, cyc, sw, trail, bq, tl, gen, dly, uq, sched, enc, hm>>

\* ------------------------------------------------------ cleanup service
\* cutoff_date of cleanup_old_images
Cutoff(r) == now - r * DayLen

InScope(i, scope) == scope = 0 \/ image[i].camera = scope

\* the sweep's first query without its is_protected condition
images_to_delete_any(scope, r) ==
    {i \in ImageIds :
        /\ image[i].rec
        /\ image[i].at < Cutoff(r)
        /\ InScope(i, scope)}

\* the rows the sweep's first query returns (images_to_delete)
images_to_delete(scope, r) ==
    {i \in ImageIds :
        /\ image[i].rec
        /\ image[i].at < Cutoff(r)
        /\ image[i].prot = FALSE
        /\ InScope(i, scope)}

\* the count of the protected images in scope, whatever their age
protected_count_any_age(scope, r) ==
    Cardinality({i \in ImageIds :
        image[i].rec /\ image[i].prot = TRUE /\ InScope(i, scope)})

\* the count the sweep's second query returns (protected_count)
protected_count(scope, r) ==
    Cardinality({i \in ImageIds :
        /\ image[i].rec
        /\ image[i].at < Cutoff(r)
        /\ image[i].prot = TRUE
        /\ InScope(i, scope)})

ProtectedImages == {i \in ImageIds : image[i].rec /\ image[i].prot}

\* cleanup_old_images up to its loop: both queries.  scope 0 is "all
\* cameras"; sw.before remembers which rows were protected at that moment.
SweepStart(scope, r) ==
    /\ sw.pc = "idle"
    /\ sw' = [IdleSweep EXCEPT !.pc = "deleting",
                               !.scope = scope,
                               !.cand = images_to_delete(scope, r),
                               !.todo = images_to_delete(scope, r),
                               !.prot = protected_count(scope, r),
                               !.before = ProtectedImages]
    /\ UNCHANGED <<now, cam, image, nimg, cfg, cyc, trail, bq, resp, tl, gen, dly, uq, sched, enc, hm>>

\* db.delete(image) reached whatever delete_file did
record_deleted_always(i, unlinked) == TRUE

\* is db.delete(image) reached in the iteration for image i?  Not when
\* delete_file raised, which it does when the file exists and cannot be
\* unlinked
record_deleted(i, unlinked) == image[i].file => unlinked

\* one iteration of the loop: storage.delete_file, then db.delete(image).
\* unlinked = FALSE is path.unlink() raising for a file that exists: the
\* exception is caught and the row is not marked for deletion.
SweepStep(i, unlinked) ==
    /\ sw.pc = "deleting"
    /\ i \in sw.todo
    /\ image[i].file \/ unlinked
    /\ image' = IF image[i].file /\ unlinked
                THEN [image EXCEPT ![i].file = FALSE] ELSE image
    /\ sw' = [sw EXCEPT
                !.todo = @ \ {i},
                !.marked = IF record_deleted(i, unlinked) THEN @ \cup {i} ELSE @,
                !.files = IF image[i].file /\ unlinked THEN @ + 1 ELSE @,
                !.bytes = IF image[i].file /\ unlinked THEN @ + image[i].size ELSE @]
    /\ UNCHANGED <<now, cam, nimg, cfg, cyc, trail, bq, resp, tl, gen, dly, uq, sched, enc, hm>>

\* the commit after the loop deletes the marked rows; the CleanupLog is then
\* written from sw.files, sw.bytes and sw.prot
SweepCommit ==
    /\ sw.pc = "deleting"
    /\ sw.todo = {}
    /\ image' = [i \in ImageIds |-> IF i \in sw.marked THEN NoImage ELSE image[i]]
    /\ sw' = IdleSweep
    /\ UNCHANGED <<now, cam, nimg, cfg, cyc, trail, bq, resp, tl, gen, dly, uq, sched, enc, hm>>

\* the commit after the loop raises: the session is rolled back and the
\* exception leaves cleanup_old_images; the rows stay, the files unlinked by
\* the loop are gone, and no CleanupLog is written
SweepRollback ==
    /\ sw.pc = "deleting"
    /\ sw.todo = {}
    /\ sw' = IdleSweep
    /\ UNCHANGED <<now, cam, image, nimg, cfg, cyc, trail, bq, resp, tl, gen, dly, uq, sched, enc, hm>>

\* the first query of cleanup_after_timelapse without its is_protected
\* condition
images_of_job_any(j) ==
    {i \in ImageIds : image[i].rec /\ image[i].tl = j}

\* the rows the first query of cleanup_after_timelapse returns
images_of_job(j) ==
    {i \in ImageIds : image[i].rec /\ image[i].tl = j /\ image[i].prot = FALSE}

\* CleanupService.cleanup_after_timelapse(timelapse) up to its loop: a
\* ValueError for a timelapse that is not completed, otherwise both queries.
\* The loop and the commit are those of the sweep (SweepStep, SweepCommit).
AfterJobStart(j) ==
    /\ sw.pc = "idle"
    /\ tl[j].rec
    /\ IF tl[j].status # "completed"
       THEN /\ resp' = [NoResp EXCEPT !.op = "cleanup_after_timelapse",
                                      !.k = j, !.code = 400]
            /\ sw' = sw
       ELSE /\ resp' = [NoResp EXCEPT !.op = "cleanup_after_timelapse",
                                      !.k = j, !.code = 200]
            /\ sw' = [IdleSweep EXCEPT
                        !.pc = "deleting",
                        !.scope = tl[j].camera,
                        !.job = j,
                        !.cand = images_of_job(j),
                        !.todo = images_of_job(j),
                        !.prot = Cardinality({i \in ImageIds :
                                    image[i].rec /\ image[i].tl = j /\ image[i].prot}),
                        !.before = ProtectedImages]
    /\ UNCHANGED <<now, cam, image, nimg, cfg, cyc, trail, bq, tl, gen, dly, uq, sched, enc, hm>>

\* ----------------------------------------------------- specifications
\* ------------------------------------------------------------- encoder
\* the two encoders of the repository: FFMPEGEncoder.encode_from_images of
\* the worker and TimelapseService._generate_video of the API services
EncoderImpls == {"worker", "service"}

\* the frame paths a call can name
Paths == 1..MaxPaths

\* the states of the output file: absent, zero bytes, truncated, a video
OutputStates == {"none", "empty", "partial", "video"}

\* the image list taken as it is
valid_images_unfiltered(image_paths, exist) == image_paths

\* valid_images = [p for p in image_paths if os.path.exists(p)]
valid_images(image_paths, exist) ==
    SelectSeq(image_paths, LAMBDA p : p \in exist)

\* the concat list written to the temporary file: the worker's encoder
\* repeats the last frame, the service's lists every image once
concat_list(impl, valid) ==
    IF impl = "worker" /\ valid # <<>> THEN valid \o <<valid[Len(valid)]>>
    ELSE valid

\* what the ffmpeg process can have left at the output path
output_after(out, written) == IF written = "keep" THEN out ELSE written

\* success returned for any exit code 0
encode_result_unverified(impl, out) == "ok"

\* the verification after exit code 0: the worker's encoder raises when the
\* output path does not exist, the service's returns the path unchecked
encode_result(impl, out) ==
    IF impl = "worker" /\ out = "none" THEN "RuntimeError" ELSE "ok"

\* a call of the encoder with a list of frame paths, some of which exist on
\* storage, and an output path that may hold a file of an earlier run
EncodeCall(impl, image_paths, exist, out0) ==
    /\ enc.pc = "idle"
    /\ enc' = [IdleEnc EXCEPT !.pc = IF impl = "worker" THEN "verify" ELSE "prepare",
                              !.impl = impl, !.paths = image_paths,
                              !.exist = exist,
                              !.valid = IF impl = "worker" THEN <<>> ELSE image_paths,
                              !.out0 = out0, !.out = out0]
    /\ UNCHANGED <<now, cam, image, nimg, cfg, cyc, sw, trail, bq, resp, tl, gen, dly, uq, sched, hm>>

\* encode_from_images: the existence filter and the FileNotFoundError
EncodeVerify ==
    /\ enc.pc = "verify"
    /\ LET valid == valid_images(enc.paths, enc.exist)
       IN enc' = IF valid = <<>>
                 THEN [enc EXCEPT !.pc = "done", !.result = "FileNotFoundError"]
                 ELSE [enc EXCEPT !.pc = "prepare", !.valid = valid]
    /\ UNCHANGED <<now, cam, image, nimg, cfg, cyc, sw, trail, bq, resp, tl, gen, dly, uq, sched, hm>>

\* the output directory is made and the concat list is written to a
\* temporary file
EncodePrepare ==
    /\ enc.pc = "prepare"
    /\ enc' = [enc EXCEPT !.pc = "spawn", !.mkdir = TRUE, !.temp = "written",
                          !.list = concat_list(enc.impl, enc.valid)]
    /\ UNCHANGED <<now, cam, image, nimg, cfg, cyc, sw, trail, bq, resp, tl, gen, dly, uq, sched, hm>>

\* asyncio.create_subprocess_exec: the process starts, or the call raises
\* (no ffmpeg binary) and the finally clause unlinks the temporary file
EncodeSpawn(started) ==
    /\ enc.pc = "spawn"
    /\ enc' = IF started
              THEN [enc EXCEPT !.pc = "wait", !.proc = "running"]
              ELSE [enc EXCEPT !.pc = "done", !.temp = "none", !.result = "OSError"]
    /\ UNCHANGED <<now, cam, image, nimg, cfg, cyc, sw, trail, bq, resp, tl, gen, dly, uq, sched, hm>>

\* wait_for(process.communicate(), timeout) and what follows it: on timeout
\* the process is killed and TimeoutError raised; a non-zero exit raises
\* RuntimeError with the process's stderr; after exit code 0 the result is
\* verified and returned.  The finally clause unlinks the temporary file.
EncodeWait(exit, written) ==
    /\ enc.pc = "wait"
    /\ exit \in {"timeout", "nonzero", "zero"}
    /\ written \in (IF exit = "zero" THEN {"keep", "empty", "video"}
                     ELSE {"keep", "empty", "partial"})
    /\ LET out == output_after(enc.out, written)
       IN enc' = [enc EXCEPT
                    !.pc = "done", !.exit = exit, !.out = out, !.temp = "none",
                    !.proc = IF exit = "timeout" THEN "killed" ELSE "exited",
                    !.result = CASE exit = "timeout" -> "TimeoutError"
                                 [] exit = "nonzero" -> "RuntimeError"
                                 [] exit = "zero" -> encode_result(enc.impl, out),
                    !.diag = (exit = "nonzero")]
    /\ UNCHANGED <<now, cam, image, nimg, cfg, cyc, sw, trail, bq, resp, tl, gen, dly, uq, sched, hm>>

\* ------------------------------------------------------------- scheduler
\* job_defaults["max_instances"] of the AsyncIOScheduler
max_instances == 1

\* does the trigger registered for a job id match the time t?  One tick is
\* the capture interval (30 s by default, like the heartbeat's interval);
\* the cron triggers fire at their time of day (daily 01:00, multi-day
\* Sunday 02:00, cleanup 03:00), day 0 being a Sunday
trigger_matches(id, t) ==
    CASE id = "capture_cycle" -> TRUE
      [] id = "heartbeat" -> TRUE
      [] id = "daily_timelapse" -> TimeOfDay(t) = 1
      [] id = "multiday_timelapse" -> Day(t) % 7 = 0 /\ TimeOfDay(t) = DayLen - 1
      [] id = "cleanup" -> TimeOfDay(t) = DayLen - 1

\* the next fire time of a job after t
next_fire_time(id, t) ==
    CHOOSE t2 \in (t + 1)..(t + 7 * DayLen) :
        /\ trigger_matches(id, t2)
        /\ \A t3 \in (t + 1)..(t2 - 1) : ~trigger_matches(id, t3)

\* capture cycles in execution: the scheduler's instance and the direct call
\* of WorkerManager.start
capture_cycles_executing ==
    sched.running["capture_cycle"] + (IF sched.initial = "capture" THEN 1 ELSE 0)

\* WorkerManager.start up to the first await after scheduler.start(): the
\* five jobs are registered, the scheduler runs, and start() goes on to its
\* own heartbeat update
WorkerStart ==
    /\ ~sched.up /\ sched.initial = "none"
    /\ sched' = [sched EXCEPT !.up = TRUE, !.initial = "heartbeat",
                              !.next = [id \in SchedJobs |-> next_fire_time(id, now)]]
    /\ UNCHANGED <<now, cam, image, nimg, cfg, cyc, sw, trail, bq, resp, tl, gen, dly, uq, enc, hm>>

\* start(): await update_heartbeat() returns, run_capture_cycle() is called
\* directly, outside the scheduler
InitialHeartbeatDone ==
    /\ sched.initial = "heartbeat"
    /\ sched' = [sched EXCEPT !.initial = "capture"]
    /\ UNCHANGED <<now, cam, image, nimg, cfg, cyc, sw, trail, bq, resp, tl, gen, dly, uq, enc, hm>>

\* start(): the initial capture cycle returns (or raises, which is logged)
InitialCaptureDone ==
    /\ sched.initial = "capture"
    /\ sched' = [sched EXCEPT !.initial = "done"]
    /\ UNCHANGED <<now, cam, image, nimg, cfg, cyc, sw, trail, bq, resp, tl, gen, dly, uq, enc, hm>>

\* the scheduler processes a due job: with coalesce the missed runs count as
\* one, the next run time is computed, and the run is submitted unless
\* max_instances instances of the job id are executing, in which case it is
\* skipped
JobFire(id) ==
    /\ sched.up /\ sched.next[id] <= now
    /\ sched' = [sched EXCEPT
                   !.next[id] = next_fire_time(id, now),
                   !.running[id] = IF @ >= max_instances THEN @ ELSE @ + 1]
    /\ UNCHANGED <<now, cam, image, nimg, cfg, cyc, sw, trail, bq, resp, tl, gen, dly, uq, enc, hm>>

\* a job's coroutine returns or raises
JobDone(id) ==
    /\ sched.running[id] > 0
    /\ sched' = [sched EXCEPT !.running[id] = @ - 1]
    /\ UNCHANGED <<now, cam, image, nimg, cfg, cyc, sw, trail, bq, resp, tl, gen, dly, uq, enc, hm>>

\* time passes; the event loop wakes the scheduler at every due time
SchedTick ==
    /\ now < MaxNow
    /\ sched.up => \A id \in SchedJobs : sched.next[id] > now
    /\ now' = now + 1
    /\ UNCHANGED <<cam, image, nimg, cfg, cyc, sw, trail, bq, resp, tl, gen, dly, uq, sched, enc, hm>>

\* WorkerManager.shutdown: the scheduler stops and the executor cancels the
\* jobs still running
WorkerShutdown ==
    /\ sched.up
    /\ sched' = [sched EXCEPT !.up = FALSE, !.running = [id \in SchedJobs |-> 0]]
    /\ UNCHANGED <<now, cam, image, nimg, cfg, cyc, sw, trail, bq, resp, tl, gen, dly, uq, enc, hm>>

Reasons == {"none", "manual"}

CaptureNext ==
    \/ CycleStart
    \/ \E c \in Cameras : TaskAcquire(c)
    \/ \E c \in Cameras, o \in CaptureOutcomes, r \in BOOLEAN :
          TaskComplete(c, o, r)
    \/ CycleEnd
    \/ CycleReturn
    \/ Tick

StoreNext ==
    \/ \E i \in ImageIds, flag \in BOOLEAN, reason \in Reasons :
          ProtectImage(i, flag, reason)
    \/ \E i \in ImageIds : DeleteImage(i)
    \/ \E k \in Configs, n \in 1..MaxDaysToCollect : StartCollection(k, n)
    \/ \E k \in Configs, u \in BOOLEAN : CancelCollection(k, u)
    \/ \E scope \in {0} \cup Cameras, r \in 1..MaxRetention : SweepStart(scope, r)
    \/ \E i \in ImageIds, u \in BOOLEAN : SweepStep(i, u)
    \/ SweepCommit

InitCommon ==
    /\ now = 0
    /\ image = [i \in ImageIds |-> NoImage]
    /\ nimg = 0
    /\ cyc = IdleCycle
    /\ sw = IdleSweep
    /\ trail = [c \in Cameras |-> 0]
    /\ resp = NoResp
    /\ tl = [j \in JobIds |-> NoJob]
    /\ gen = IdleGen
    /\ dly = IdleDaily
    /\ sched = IdleSched
    /\ enc = IdleEnc
    /\ hm = IdleHealth

\* frame store: every camera is captured on schedule; every config belongs
\* to camera 1
Init ==
    /\ InitCommon
    /\ uq = TRUE
    /\ bq = NoBq
    /\ cam = [c \in Cameras |-> NewCamera(TRUE, 1, None, None)]
    /\ cfg = [k \in Configs |-> IF k = 1 THEN NewConfig(1) ELSE NoConfig]

\* the scheduled capture cycle as the frame store sees it: fetches that succeed
StoreCaptureNext ==
    \/ CycleStart
    \/ \E c \in Cameras : TaskAcquire(c)
    \/ \E c \in Cameras : TaskComplete(c, "ok", FALSE)
    \/ CycleEnd
    \/ CycleReturn
    \/ NextDay

Next == StoreCaptureNext \/ StoreNext

Spec == Init /\ [][Next]_vars

\* image sweeps whose file deletions and whose commit can fail, over the
\* frames of both cameras
SweepNext ==
    \/ StoreCaptureNext
    \/ \E scope \in {0} \cup Cameras, r \in 1..MaxRetention : SweepStart(scope, r)
    \/ \E i \in ImageIds, u \in BOOLEAN : SweepStep(i, u)
    \/ SweepCommit
    \/ SweepRollback

SpecSweep == Init /\ [][SweepNext]_vars

\* image sweeps next to manual protection requests
ReportNext ==
    \/ StoreCaptureNext
    \/ \E i \in ImageIds, flag \in BOOLEAN : ProtectImage(i, flag, "manual")
    \/ \E scope \in {0} \cup Cameras, r \in 1..MaxRetention : SweepStart(scope, r)
    \/ \E i \in ImageIds, u \in BOOLEAN : SweepStep(i, u)
    \/ SweepCommit

SpecReport == Init /\ [][ReportNext]_vars

\* cameras as the camera API can have created them: active without
\* blackout, active with a blackout window that wraps midnight, active with
\* a blackout window inside the day, inactive
CameraProfiles ==
    {NewCamera(TRUE, iv, None, None) : iv \in 1..MaxInterval}
    \cup {NewCamera(TRUE, 1, DayLen - 1, 0),
          NewCamera(TRUE, 1, 1, 1),
          NewCamera(FALSE, 1, None, None)}

\* capture scheduling: cameras with any activity flag, interval and
\* blackout window
InitCapture ==
    /\ InitCommon
    /\ uq = TRUE
    /\ bq = NoBq
    /\ cam \in [Cameras -> CameraProfiles]
    /\ cfg = [k \in Configs |-> IF k = 1 THEN NewConfig(1) ELSE NoConfig]

SpecCapture == InitCapture /\ [][CaptureNext]_vars


\* ------------------------------------------------------ frame selector
\* hour_key of a capture time (strftime("%Y%m%d%H")): its calendar hour
Hour(t) == t \div HourLen

Min(a, b) == IF a <= b THEN a ELSE b

\* hourly_buckets[h]: the frames of hour h, in input order
hourly_bucket(frames, h) == SelectSeq(frames, LAMBDA t : Hour(t) = h)

\* Python's float is the IEEE 754 double: 53 significant bits, round to
\* nearest, ties to even.  A positive double is modelled as [bits, scale]:
\* the binary digits of an integer, most significant first, and the number
\* of them that follow the binary point.
mantissa_bits == 53

\* the binary digits of a natural number (none for 0)
RECURSIVE int_bits(_)
int_bits(v) == IF v = 0 THEN <<>> ELSE int_bits(v \div 2) \o <<v % 2>>

\* the natural number with the given binary digits
RECURSIVE bits_value(_)
bits_value(b) ==
    IF b = <<>> THEN 0
    ELSE 2 * bits_value(SubSeq(b, 1, Len(b) - 1)) + b[Len(b)]

\* 2^n modulo k, by repeated squaring
RECURSIVE pow2mod(_, _)
pow2mod(n, k) ==
    IF n = 0 THEN 1 % k
    ELSE LET h == pow2mod(n \div 2, k)
         IN (h * h * (IF n % 2 = 1 THEN 2 ELSE 1)) % k

\* the first n binary digits of r / k after the point, for r < k: the j-th
\* digit is the whole part of twice the remainder left after j - 1 digits
frac_bits(r, k, n) ==
    [j \in 1..n |-> (2 * ((r * pow2mod(j - 1, k)) % k)) \div k]

\* the remainder left after those n digits
frac_rem(r, k, n) == (r * pow2mod(n, k)) % k

\* the digits of b + 1: the last 0 becomes 1 and the 1s after it 0
bits_increment(b) ==
    LET zeros == {n \in 1..Len(b) : b[n] = 0}
    IN IF zeros = {} THEN <<1>> \o [n \in 1..Len(b) |-> 0]
       ELSE LET z == CHOOSE n \in zeros : \A y \in zeros : y <= n
            IN [n \in 1..Len(b) |-> IF n < z THEN b[n] ELSE IF n = z THEN 1 ELSE 0]

\* b cut to the first mantissa_bits digits, rounded to nearest, ties to
\* even; sticky tells that non-zero digits follow b
round_bits(b, sticky) ==
    IF Len(b) <= mantissa_bits THEN b
    ELSE LET keep == SubSeq(b, 1, mantissa_bits)
             rest == SubSeq(b, mantissa_bits + 1, Len(b))
             more == sticky \/ \E n \in 2..Len(rest) : rest[n] = 1
             up == rest[1] = 1 /\ (more \/ keep[mantissa_bits] = 1)
         IN IF up THEN bits_increment(keep) ELSE keep

\* the double m / k for integers m >= k >= 1
float_div(m, k) ==
    LET whole == int_bits(m \div k)
        n == mantissa_bits + 1 - Len(whole)
        digits == whole \o frac_bits(m % k, k, n)
    IN [bits |-> round_bits(digits, frac_rem(m % k, k, n) # 0),
        scale |-> n - 1]

\* v in w binary digits, with leading zeros
padded_bits(v, w) ==
    LET d == int_bits(v) IN [n \in 1..(w - Len(d)) |-> 0] \o d

\* the digits of b * i + carry for a small natural number i, worked from
\* the low end in groups of twelve digits
RECURSIVE bits_times(_, _, _)
bits_times(b, i, carry) ==
    IF b = <<>> THEN int_bits(carry)
    ELSE LET w == IF Len(b) < 12 THEN Len(b) ELSE 12
             v == bits_value(SubSeq(b, Len(b) - w + 1, Len(b))) * i + carry
         IN bits_times(SubSeq(b, 1, Len(b) - w), i, v \div (2 ^ w))
               \o padded_bits(v % (2 ^ w), w)

\* the double i * x for an integer i >= 1
float_mul(i, x) ==
    LET product == bits_times(x.bits, i, 0)
        dropped == IF Len(product) > mantissa_bits
                   THEN Len(product) - mantissa_bits ELSE 0
    IN [bits |-> round_bits(product, FALSE), scale |-> x.scale - dropped]

\* int(x) for a positive double with scale >= 0
float_int(x) == bits_value(SubSeq(x.bits, 1, Len(x.bits) - x.scale))

\* sampling aligned to the end of the bucket
sample_index_from_end(i, m, count) == ((i + 1) * m) \div count - 1

\* idx = int(i * step) with step = len(images) / count, in doubles
sample_index(i, m, count) ==
    IF i = 0 THEN 0 ELSE float_int(float_mul(i, float_div(m, count)))

\* the frames taken from one bucket
select_from_bucket(images, k) ==
    LET m == Len(images)
        count == Min(k, m)
    IN IF count = m
       THEN images
       ELSE [j \in 1..count |-> images[sample_index(j - 1, m, count) + 1]]

\* the loop over sorted(hourly_buckets.keys())
RECURSIVE select_hours(_, _, _)
select_hours(frames, keys, k) ==
    IF keys = {} THEN <<>>
    ELSE LET h == CHOOSE x \in keys : \A y \in keys : x <= y
         IN select_from_bucket(hourly_bucket(frames, h), k)
            \o select_hours(frames, keys \ {h}, k)

\* select_images_for_multiday past its query: all_images is the query's
\* result, ordered by captured_at
select_images_for_multiday(all_images, k) ==
    IF all_images = <<>> THEN <<>>
    ELSE select_hours(all_images, {Hour(all_images[i]) : i \in 1..Len(all_images)}, k)

\* --------------------------------------------- pure functions, applied
Stamps == 0..(NumHours * HourLen - 1)

\* is_in_blackout is applied to the drawn camera window and check time
ApplyBlackout ==
    /\ bq.kind = "blackout"
    /\ ~bq.done
    /\ bq' = [bq EXCEPT !.done = TRUE,
                        !.out = is_in_blackout(bq.bs, bq.be, bq.t)]
    /\ UNCHANGED <<now, cam, image, nimg, cfg, cyc, sw, trail, resp, tl, gen, dly, uq, sched, enc, hm>>

InitBlackout ==
    /\ InitCommon
    /\ uq = TRUE
    /\ cam = [c \in Cameras |-> NewCamera(TRUE, 1, None, None)]
    /\ cfg = [k \in Configs |-> IF k = 1 THEN NewConfig(1) ELSE NoConfig]
    /\ bq \in [kind : {"blackout"}, bs : {None} \cup 0..MaxTime,
               be : {None} \cup 0..MaxTime, t : 0..MaxTime,
               done : {FALSE}, out : {FALSE}]

SpecBlackout == InitBlackout /\ [][ApplyBlackout]_vars

\* the selector is applied to the drawn frames and images_per_hour
ApplySelect ==
    /\ bq.kind = "select"
    /\ ~bq.done
    /\ bq' = [bq EXCEPT !.done = TRUE,
                        !.out = select_images_for_multiday(bq.frames, bq.k)]
    /\ UNCHANGED <<now, cam, image, nimg, cfg, cyc, sw, trail, resp, tl, gen, dly, uq, sched, enc, hm>>

InitSelect ==
    /\ InitCommon
    /\ uq = TRUE
    /\ cam = [c \in Cameras |-> NewCamera(TRUE, 1, None, None)]
    /\ cfg = [k \in Configs |-> IF k = 1 THEN NewConfig(1) ELSE NoConfig]
    /\ bq \in {[kind |-> "select", frames |-> SetToSeq(S), k |-> k,
                done |-> FALSE, out |-> <<>>] :
                  S \in SUBSET Stamps, k \in 1..MaxPerHour}

SpecSelect == InitSelect /\ [][ApplySelect]_vars


\* the sampling of one bucket is applied to the drawn bucket size and
\* images_per_hour
ApplySample ==
    /\ bq.kind = "sample"
    /\ ~bq.done
    /\ bq' = [bq EXCEPT !.done = TRUE,
                        !.out = select_from_bucket([n \in 1..bq.m |-> n - 1], bq.k)]
    /\ UNCHANGED <<now, cam, image, nimg, cfg, cyc, sw, trail, resp, tl, gen, dly, uq, sched, enc, hm>>

\* buckets of every size up to MaxBucket, sampled at fewer frames than they
\* hold
InitSample ==
    /\ InitCommon
    /\ uq = TRUE
    /\ cam = [c \in Cameras |-> NewCamera(TRUE, 1, None, None)]
    /\ cfg = [k \in Configs |-> IF k = 1 THEN NewConfig(1) ELSE NoConfig]
    /\ bq \in {[kind |-> "sample", m |-> m, k |-> k, done |-> FALSE, out |-> <<>>] :
                  m \in 2..MaxBucket, k \in 1..MaxBucket}
    /\ bq.k < bq.m

SpecSample == InitSample /\ [][ApplySample]_vars

\* ---------------------------------------------------- config updates
\* PUT /multiday/{id} (update_multiday_config): every field the request
\* carries is set on the row.  mode and days_to_include are the fields of
\* MultidayConfigUpdate that the collection reads; a field the request
\* leaves out is the same as sending its current value.
UpdateConfig(k, mode, days) ==
    /\ cfg[k].camera # 0
    /\ cfg' = [cfg EXCEPT ![k] = [@ EXCEPT !.mode = mode, !.days = days]]
    /\ resp' = [NoResp EXCEPT !.op = "update", !.k = k, !.code = 200]
    /\ UNCHANGED <<now, cam, image, nimg, cyc, sw, trail, bq, tl, gen, dly, uq, sched, enc, hm>>

\* update_collection_progress: nothing without a start date; otherwise the
\* progress is recomputed and a config whose end date has passed is set to
\* ready
AdvanceProgress(k) ==
    /\ cfg[k].camera # 0
    /\ LET today == Day(now)
           days_collected == today - cfg[k].start + 1
       IN cfg' = IF cfg[k].start = None THEN cfg
                 ELSE [cfg EXCEPT ![k] =
                         [@ EXCEPT !.progress = Min(days_collected, cfg[k].days),
                                   !.status = IF cfg[k].end # None /\ today > cfg[k].end
                                              THEN "ready" ELSE @]]
    /\ resp' = [NoResp EXCEPT !.op = "advance", !.k = k]
    /\ UNCHANGED <<now, cam, image, nimg, cyc, sw, trail, bq, tl, gen, dly, uq, sched, enc, hm>>

\* ------------------------------------------------ multi-day generation
\* the configs table after check_completed_collections
check_completed_collections ==
    [k \in Configs |->
        IF /\ cfg[k].mode = "prospective"
           /\ cfg[k].status = "collecting"
           /\ cfg[k].end # None
           /\ cfg[k].end < Day(now)
        THEN [cfg[k] EXCEPT !.status = "ready", !.progress = cfg[k].days]
        ELSE cfg[k]]

\* the historical configs of active cameras (is_enabled at its default)
historical_configs(c1) ==
    {k \in Configs :
        /\ c1[k].camera # 0
        /\ c1[k].mode = "historical"
        /\ cam[c1[k].camera].active}

\* the prospective configs that are ready (auto_generate at its default)
prospective_configs(c1) ==
    {k \in Configs :
        /\ c1[k].camera # 0
        /\ c1[k].mode = "prospective"
        /\ c1[k].status = "ready"
        /\ cam[c1[k].camera].active}

\* the image ids of camera c captured on day d, in capture order
frames_of_day(c, d) ==
    SetToSeq({i \in ImageIds :
                 image[i].rec /\ image[i].camera = c /\ Day(image[i].at) = d})

\* select_images_for_multiday over [d1, d2]: the hour key carries the date,
\* and the capture times of one day of the store lie within one hour
RECURSIVE select_images_for_range(_, _, _, _)
select_images_for_range(c, d1, d2, k) ==
    IF d1 > d2 THEN <<>>
    ELSE select_from_bucket(frames_of_day(c, d1), k)
            \o select_images_for_range(c, d1 + 1, d2, k)

\* get_images_for_prospective_config
get_images_for_prospective_config(k) ==
    {i \in ImageIds : image[i].rec /\ image[i].cfg = k}

\* the id of the row db.add(timelapse) creates (0: the table of the model is full)
FreeJob ==
    IF \E j \in JobIds : ~tl[j].rec
    THEN CHOOSE j \in JobIds : ~tl[j].rec /\ \A i \in JobIds : ~tl[i].rec => j <= i
    ELSE 0

\* the row that uq_timelapse_camera_type_dates makes an insert of a
\* timelapse of kind t for camera c over [d1, d2] collide with, 0 when
\* there is none
same_key_job(c, t, d1, d2) ==
    IF \E j \in JobIds : tl[j].rec /\ tl[j].kind = t /\ tl[j].camera = c
                            /\ tl[j].start = d1 /\ tl[j].end = d2
    THEN CHOOSE j \in JobIds : tl[j].rec /\ tl[j].kind = t /\ tl[j].camera = c
                                  /\ tl[j].start = d1 /\ tl[j].end = d2
    ELSE 0

\* two timelapse rows whose videos have the same path: the file name is made
\* of the camera name, the video type and the dates
SamePath(a, b) ==
    /\ a.kind = b.kind /\ a.camera = b.camera
    /\ a.start = b.start /\ a.end = b.end

\* the timelapses table and the video files after row j became `row` and
\* `written` ("video", "partial", "missing", or "keep" for no change) was
\* left at its output path: every other row whose file_path names that
\* path sees the same file
videos_after(j, row, written) ==
    [i \in JobIds |->
        IF i = j
        THEN row
        ELSE IF tl[i].rec /\ tl[i].file # "none" /\ SamePath(tl[i], tl[j])
                  /\ written # "keep"
             THEN [tl[i] EXCEPT !.file = written]
             ELSE tl[i]]

\* run_multiday_timelapse_generation up to its loop
GenStart ==
    /\ gen.pc = "idle"
    /\ LET c1 == check_completed_collections
           configs == SetToSeq(historical_configs(c1))
                         \o SetToSeq(prospective_configs(c1))
       IN /\ cfg' = c1
          /\ gen' = IF configs = <<>> THEN IdleGen
                    ELSE [IdleGen EXCEPT !.pc = "running", !.todo = configs]
    /\ UNCHANGED <<now, cam, image, nimg, cyc, sw, trail, bq, resp, tl, dly, uq, sched, enc, hm>>

\* one iteration of the loop up to the encoder: the images are selected and
\* marked protected, and the Timelapse row is created as processing.  When
\* a multiday row for the same camera and dates exists and the table
\* carries the unique constraint, the insert violates it: the commit raises
\* outside the inner try, the images stay protected and the iteration ends
\* without a row.
GenPick ==
    /\ gen.pc = "running"
    /\ gen.todo # <<>>
    /\ LET k == Head(gen.todo)
           c == cfg[k].camera
           prosp == cfg[k].mode = "prospective" /\ cfg[k].status = "ready"
           start_date == IF prosp THEN cfg[k].start
                         ELSE Day(now) - 1 - (cfg[k].days - 1)
           end_date == IF prosp THEN cfg[k].end ELSE Day(now) - 1
           selected == IF prosp THEN get_images_for_prospective_config(k)
                       ELSE Range(select_images_for_range(
                                     c, start_date, end_date, cfg[k].perHour))
           skip == \/ prosp /\ (cfg[k].start = None \/ cfg[k].end = None)
                   \/ selected = {}
           j == FreeJob
           protected == [i \in ImageIds |->
                           IF i \in selected
                           THEN [image[i] EXCEPT !.prot = TRUE]
                           ELSE image[i]]
       IN IF skip
          THEN /\ gen' = [gen EXCEPT !.todo = Tail(gen.todo)]
               /\ UNCHANGED <<image, tl>>
          ELSE IF uq /\ same_key_job(c, "multiday", start_date, end_date) # 0
          THEN /\ image' = protected
               /\ gen' = [gen EXCEPT !.todo = Tail(gen.todo)]
               /\ tl' = tl
          ELSE /\ j # 0
               /\ image' = protected
               /\ tl' = [tl EXCEPT ![j] =
                           [rec |-> TRUE, kind |-> "multiday", camera |-> c,
                            start |-> start_date, end |-> end_date,
                            status |-> "processing", error |-> "none",
                            file |-> "none", createdAs |-> "processing",
                            startedAt |-> TRUE, completedAt |-> FALSE]]
               /\ gen' = [gen EXCEPT !.pc = "encoding",
                                     !.todo = Tail(gen.todo),
                                     !.k = k, !.mode = cfg[k].mode,
                                     !.job = j, !.sel = selected]
    /\ UNCHANGED <<now, cam, nimg, cfg, cyc, sw, trail, bq, resp, dly, uq, sched, enc, hm>>

EncodeOutcomes == {"ok", "error", "timeout"}

\* the encoder returns or raises and the iteration runs to its end.  `m` is
\* config.mode as the worker's session sees it at that point: the value it
\* loaded, or the current one when the attribute was reloaded.  `written` is
\* what ffmpeg -y left at the output path: "video" after a success, and
\* after a failure "partial", or nothing ("keep") when it stopped before
\* opening its output.
\* `n` is what notify_timelapse_complete meets after the commit of the
\* completed job.  When it raises, the handler of the iteration marks the
\* job and a prospective config failed; `committed` tells whether the commit
\* of that handler goes through on the session the query has just failed on.
GenEncodeDoneNotify(o, written, m, n, committed) ==
    /\ gen.pc = "encoding"
    /\ written \in (IF o = "ok" THEN {"video"} ELSE {"partial", "keep"})
    /\ m \in {gen.mode, cfg[gen.k].mode}
    /\ ~committed => (o = "ok" /\ notify_raises(n))
    /\ LET j == gen.job
           k == gen.k
       IN IF o = "ok" /\ notify_raises(n)
          THEN /\ tl' = videos_after(
                          j, [tl[j] EXCEPT
                                !.status = IF committed THEN "failed" ELSE "completed",
                                !.error = IF committed THEN "notification" ELSE @,
                                !.file = "video", !.completedAt = TRUE],
                          written)
               /\ image' = [i \in ImageIds |->
                              IF i \in gen.sel /\ image[i].rec
                              THEN [image[i] EXCEPT !.tl = j]
                              ELSE image[i]]
               /\ cfg' = IF m = "prospective" /\ committed
                         THEN [cfg EXCEPT ![k] = [@ EXCEPT !.status = "failed"]]
                         ELSE cfg
          ELSE IF o = "ok"
          THEN /\ tl' = videos_after(
                          j, [tl[j] EXCEPT !.status = "completed", !.file = "video",
                                           !.completedAt = TRUE],
                          written)
               /\ image' = [i \in ImageIds |->
                              IF i \in gen.sel /\ image[i].rec
                              THEN [image[i] EXCEPT !.tl = j]
                              ELSE image[i]]
               /\ cfg' = IF m = "prospective"
                         THEN [cfg EXCEPT ![k] =
                                 [@ EXCEPT !.status = "completed", !.lastGen = now]]
                         ELSE cfg
          ELSE /\ tl' = videos_after(
                          j, [tl[j] EXCEPT !.status = "failed", !.error = o],
                          written)
               /\ image' = image
               /\ cfg' = IF m = "prospective"
                         THEN [cfg EXCEPT ![k] = [@ EXCEPT !.status = "failed"]]
                         ELSE cfg
    /\ gen' = [gen EXCEPT !.pc = "running", !.k = 0, !.mode = "none",
                          !.job = 0, !.sel = {},
                          !.ntf = IF o = "ok" THEN n ELSE "none"]
    /\ UNCHANGED <<now, cam, nimg, cyc, sw, trail, bq, resp, dly, uq, sched, enc, hm>>

\* the end of an iteration where Apprise is switched off (the default)
GenEncodeDone(o, written, m) ==
    GenEncodeDoneNotify(o, written, m, "disabled", TRUE)

\* the loop is over and run_multiday_timelapse_generation returns
GenEnd ==
    /\ gen.pc = "running"
    /\ gen.todo = <<>>
    /\ gen' = IdleGen
    /\ UNCHANGED <<now, cam, image, nimg, cfg, cyc, sw, trail, bq, resp, tl, dly, uq, sched, enc, hm>>


\* --------------------------------------------------- daily generation
\* the Timelapse row generate_daily_timelapse finds for (camera, date), 0
\* when there is none
existing_daily(c, d) == same_key_job(c, "daily", d, d)

\* one iteration of run_daily_timelapse_generation, for yesterday, up to the
\* encoder: generate_daily_timelapse takes the existing row or creates one,
\* sets it to processing, and fails it when the date has no images.  The
\* same date is generated again when the task runs twice before the
\* worker's date.today() advances (the cron trigger runs in settings.tz) and
\* when generate_timelapse_for_camera is called for it.
DailyStart(c) ==
    /\ dly.pc = "idle"
    /\ cam[c].active
    /\ Day(now) >= 1
    /\ LET d == Day(now) - 1
           e == existing_daily(c, d)
           j == IF e # 0 THEN e ELSE FreeJob
           images == Range(frames_of_day(c, d))
           row == IF e # 0 THEN tl[e]
                  ELSE [rec |-> TRUE, kind |-> "daily", camera |-> c,
                        start |-> d, end |-> d, status |-> "pending",
                        error |-> "none", file |-> "none",
                        createdAs |-> "pending", startedAt |-> FALSE,
                        completedAt |-> FALSE]
       IN /\ j # 0
          /\ IF images = {}
             THEN /\ tl' = [tl EXCEPT ![j] =
                              [row EXCEPT !.status = "failed", !.error = "no images",
                                          !.startedAt = TRUE]]
                  /\ dly' = IdleDaily
             ELSE /\ tl' = [tl EXCEPT ![j] = [row EXCEPT !.status = "processing",
                                                          !.startedAt = TRUE]]
                  /\ dly' = [pc |-> "encoding", job |-> j, sel |-> images]
    /\ UNCHANGED <<now, cam, image, nimg, cfg, cyc, sw, trail, bq, resp, gen, uq, sched, enc, hm>>

\* _generate_video returns or raises and generate_daily_timelapse ends.  The
\* row keeps its file_path; `written` is what ffmpeg -y left at that path:
\* "video" after a success, and after a failure "partial", or nothing
\* ("keep") when ffmpeg stopped before opening its output.
DailyEncodeDone(o, written) ==
    /\ dly.pc = "encoding"
    /\ written \in (IF o = "ok" THEN {"video"} ELSE {"partial", "keep"})
    /\ LET j == dly.job
       IN IF o = "ok"
          THEN /\ tl' = [tl EXCEPT ![j] =
                           [@ EXCEPT !.status = "completed", !.file = "video",
                                     !.completedAt = TRUE]]
               /\ image' = [i \in ImageIds |->
                              IF i \in dly.sel /\ image[i].rec
                              THEN [image[i] EXCEPT !.tl = j]
                              ELSE image[i]]
          ELSE /\ tl' = [tl EXCEPT ![j] =
                           [@ EXCEPT !.status = "failed", !.error = o,
                                     !.file = IF @ # "none" /\ written # "keep"
                                              THEN written ELSE @]]
               /\ image' = image
    /\ dly' = IdleDaily
    /\ UNCHANGED <<now, cam, nimg, cfg, cyc, sw, trail, bq, resp, gen, uq, sched, enc, hm>>

\* DELETE /timelapses/{id} (delete_timelapse) for a job no worker is
\* generating: the video file and the row are removed, and the foreign key
\* of the images that name the job is set to NULL
DeleteTimelapse(j) ==
    /\ tl[j].rec
    /\ gen.job # j /\ dly.job # j
    /\ tl' = videos_after(j, NoJob, IF tl[j].file = "none" THEN "keep" ELSE "missing")
    /\ image' = [i \in ImageIds |->
                   IF image[i].rec /\ image[i].tl = j
                   THEN [image[i] EXCEPT !.tl = 0]
                   ELSE image[i]]
    /\ UNCHANGED <<now, cam, nimg, cfg, cyc, sw, trail, bq, resp, gen, dly, uq, sched, enc, hm>>

\* the worker process dies while an encoder runs and is started again
\* (WorkerManager.start): the scheduler and its jobs start from scratch, and
\* nothing reads the timelapses table; the row that was being generated
\* stays as the last commit left it, and `written` is what the killed
\* encoder left at the output path
WorkerCrash(written) ==
    /\ sched.crashes < MaxCrashes
    /\ gen.pc = "encoding" \/ dly.pc = "encoding"
    /\ written \in {"partial", "keep"}
    /\ LET j == IF gen.pc = "encoding" THEN gen.job ELSE dly.job
           row == [tl[j] EXCEPT !.file = IF @ # "none" /\ written # "keep"
                                         THEN written ELSE @]
       IN tl' = videos_after(j, row, written)
    /\ gen' = IdleGen
    /\ dly' = IdleDaily
    /\ cyc' = IdleCycle
    /\ sw' = IdleSweep
    /\ sched' = [IdleSched EXCEPT !.crashes = sched.crashes + 1]
    /\ UNCHANGED <<now, cam, image, nimg, cfg, trail, bq, resp, uq, enc, hm>>

\* ----------------------------------------------- jobs created by the API
\* db.add(timelapse) and commit of a pending row: with the unique constraint
\* on the table an insert of a second row with the same key is refused
insert_refused(c, t, d1, d2) == uq /\ same_key_job(c, t, d1, d2) # 0

PendingJob(c, t, d1, d2) ==
    [rec |-> TRUE, kind |-> t, camera |-> c, start |-> d1, end |-> d2,
     status |-> "pending", error |-> "none", file |-> "none",
     createdAs |-> "pending", startedAt |-> FALSE, completedAt |-> FALSE]

\* POST /timelapses/camera/{camera_id} (create_timelapse) with date_start d1
\* and date_end d2: 400 when a daily row for these dates exists, otherwise
\* a pending row of type daily (d1 = d2) or multiday is inserted
CreateTimelapse(c, d1, d2) ==
    /\ LET t == IF d1 = d2 THEN "daily" ELSE "multiday"
           j == FreeJob
       IN IF same_key_job(c, "daily", d1, d2) # 0
          THEN /\ resp' = [NoResp EXCEPT !.op = "create", !.code = 400]
               /\ tl' = tl
          ELSE IF insert_refused(c, t, d1, d2)
          THEN /\ resp' = [NoResp EXCEPT !.op = "create", !.code = 500]
               /\ tl' = tl
          ELSE /\ j # 0
               /\ resp' = [NoResp EXCEPT !.op = "create", !.code = 200]
               /\ tl' = [tl EXCEPT ![j] = PendingJob(c, t, d1, d2)]
    /\ UNCHANGED <<now, cam, image, nimg, cfg, cyc, sw, trail, bq, gen, dly, uq, sched, enc, hm>>

\* POST /multiday/generate-historical (generate_historical_timelapse): 400
\* when the range is reversed or holds no image of the camera, otherwise a
\* pending multiday row is inserted
GenerateHistorical(c, d1, d2) ==
    /\ LET total_images ==
               Cardinality({i \in ImageIds :
                               /\ image[i].rec /\ image[i].camera = c
                               /\ Day(image[i].at) >= d1 /\ Day(image[i].at) <= d2})
           j == FreeJob
       IN IF d2 < d1 \/ total_images = 0
          THEN /\ resp' = [NoResp EXCEPT !.op = "generate-historical", !.code = 400]
               /\ tl' = tl
          ELSE IF insert_refused(c, "multiday", d1, d2)
          THEN /\ resp' = [NoResp EXCEPT !.op = "generate-historical", !.code = 500]
               /\ tl' = tl
          ELSE /\ j # 0
               /\ resp' = [NoResp EXCEPT !.op = "generate-historical", !.code = 200]
               /\ tl' = [tl EXCEPT ![j] = PendingJob(c, "multiday", d1, d2)]
    /\ UNCHANGED <<now, cam, image, nimg, cfg, cyc, sw, trail, bq, gen, dly, uq, sched, enc, hm>>

\* ------------------------------------- collection and video specifications
\* the multiday router next to the capture cycle that protects the
\* collected frames
CollectNext ==
    \/ \E k \in Configs, n \in 1..MaxDaysToCollect : StartCollection(k, n)
    \/ \E k \in Configs, u \in BOOLEAN : CancelCollection(k, u)
    \/ \E k \in Configs, m \in {"historical", "prospective"},
          d \in 1..MaxDaysToCollect : UpdateConfig(k, m, d)
    \/ StoreCaptureNext

\* camera 1 is captured; every config belongs to it
InitCollect ==
    /\ InitCommon
    /\ uq = TRUE
    /\ bq = NoBq
    /\ cam = [c \in Cameras |-> NewCamera(c = 1, 1, None, None)]
    /\ cfg = [k \in Configs |-> NewConfig(1)]

SpecCollect == InitCollect /\ [][CollectNext]_vars

\* the life of a prospective config: collection, readiness, generation
GenerationNext ==
    \/ \E k \in Configs, n \in 1..MaxDaysToCollect : StartCollection(k, n)
    \/ \E k \in Configs, u \in BOOLEAN : CancelCollection(k, u)
    \/ StoreCaptureNext
    \/ GenStart
    \/ GenPick
    \/ \E o \in {"ok", "error"}, w \in {"video", "partial", "keep"},
          m \in {"historical", "prospective"} : GenEncodeDone(o, w, m)
    \/ GenEnd

\* camera 1 is captured; its config was created with mode=prospective
InitGeneration ==
    /\ InitCommon
    /\ uq \in BOOLEAN
    /\ bq = NoBq
    /\ cam = [c \in Cameras |-> NewCamera(c = 1, 1, None, None)]
    /\ cfg = [k \in Configs |->
                IF k = 1 THEN [NewConfig(1) EXCEPT !.mode = "prospective"]
                ELSE NoConfig]

SpecGeneration == InitGeneration /\ [][GenerationNext]_vars

\* POST /multiday/{id}/generate (trigger_multiday_generation): 404 for an
\* unknown id; otherwise the answer is 200 "generation triggered" and no
\* task is started
TriggerGeneration(k) ==
    /\ resp' = [NoResp EXCEPT !.op = "generate", !.k = k,
                              !.code = IF cfg[k].camera = 0 THEN 404 ELSE 200]
    /\ UNCHANGED <<now, cam, image, nimg, cfg, cyc, sw, trail, bq, tl, gen, dly, uq, sched, enc, hm>>

\* generation in both modes over a store that holds several frames of one
\* hour: camera 1 is captured at every tick, its config is started as a
\* prospective collection or left historical
WindowNext ==
    \/ \E n \in 1..MaxDaysToCollect : StartCollection(1, n)
    \/ StoreCaptureNext
    \/ Tick
    \/ GenStart
    \/ GenPick
    \/ \E o \in {"ok", "error"}, m \in {"historical", "prospective"} :
          GenEncodeDone(o, IF o = "ok" THEN "video" ELSE "partial", m)
    \/ GenEnd

InitWindow ==
    /\ InitCommon
    /\ uq = FALSE
    /\ bq = NoBq
    /\ cam = [c \in Cameras |-> NewCamera(c = 1, 1, None, None)]
    /\ cfg \in {[k \in Configs |->
                    IF k = 1 THEN [NewConfig(1) EXCEPT !.mode = md] ELSE NoConfig] :
                 md \in {"historical", "prospective"}}

SpecWindow == InitWindow /\ [][WindowNext]_vars

\* the collection of one prospective config from start to generation, with
\* its progress advanced at any time
ProgressNext ==
    \/ \E k \in Configs, n \in 1..MaxDaysToCollect : StartCollection(k, n)
    \/ \E k \in Configs : AdvanceProgress(k)
    \/ StoreCaptureNext
    \/ GenStart
    \/ GenPick
    \/ \E o \in {"ok", "error"}, m \in {"historical", "prospective"} :
          GenEncodeDone(o, IF o = "ok" THEN "video" ELSE "partial", m)
    \/ GenEnd

SpecProgress == InitWindow /\ [][ProgressNext]_vars

\* generation requests of the API next to the scheduled multi-day run
TriggerNext ==
    \/ \E k \in Configs : TriggerGeneration(k)
    \/ \E n \in 1..MaxDaysToCollect : StartCollection(1, n)
    \/ StoreCaptureNext
    \/ GenStart
    \/ GenPick
    \/ \E o \in {"ok", "error"}, m \in {"historical", "prospective"} :
          GenEncodeDone(o, IF o = "ok" THEN "video" ELSE "partial", m)
    \/ GenEnd

SpecTrigger == InitWindow /\ [][TriggerNext]_vars

\* the video jobs: daily and multi-day generation over captured frames,
\* and the deletion of jobs
VideoNext ==
    \/ StoreCaptureNext
    \/ GenStart
    \/ GenPick
    \/ \E o \in EncodeOutcomes, w \in {"video", "partial", "keep"},
          m \in {"historical", "prospective"} : GenEncodeDone(o, w, m)
    \/ GenEnd
    \/ \E c \in Cameras : DailyStart(c)
    \/ \E o \in EncodeOutcomes, w \in {"video", "partial", "keep"} :
          DailyEncodeDone(o, w)
    \/ \E j \in JobIds : DeleteTimelapse(j)

\* camera 1 is captured and has one historical config
InitVideo ==
    /\ InitCommon
    /\ uq \in BOOLEAN
    /\ bq = NoBq
    /\ cam = [c \in Cameras |-> NewCamera(c = 1, 1, None, None)]
    /\ cfg = [k \in Configs |-> IF k = 1 THEN NewConfig(1) ELSE NoConfig]

SpecVideo == InitVideo /\ [][VideoNext]_vars

\* the timelapses table under every writer of rows: the jobs created over
\* the API (for camera 1, the camera that is captured) next to the
\* scheduled daily and multi-day runs
JobsNext ==
    \/ \E d1, d2 \in 0..MaxDay : CreateTimelapse(1, d1, d2)
    \/ \E d1, d2 \in 0..MaxDay : GenerateHistorical(1, d1, d2)
    \/ StoreCaptureNext
    \/ GenStart
    \/ GenPick
    \/ \E o \in {"ok", "error"}, w \in {"video", "partial", "keep"},
          m \in {"historical", "prospective"} : GenEncodeDone(o, w, m)
    \/ GenEnd
    \/ \E c \in Cameras : DailyStart(c)
    \/ \E o \in {"ok", "error"}, w \in {"video", "partial", "keep"} :
          DailyEncodeDone(o, w)

SpecJobs == InitVideo /\ [][JobsNext]_vars

\* the cleanup after a job: daily jobs over captured frames, frames
\* protected by hand, and cleanup_after_timelapse for any job
AfterJobNext ==
    \/ StoreCaptureNext
    \/ Tick
    \/ \E i \in ImageIds, flag \in BOOLEAN : ProtectImage(i, flag, "manual")
    \/ \E c \in Cameras : DailyStart(c)
    \/ \E o \in {"ok", "error"}, w \in {"video", "partial", "keep"} :
          DailyEncodeDone(o, w)
    \/ \E j \in JobIds : AfterJobStart(j)
    \/ \E i \in ImageIds, u \in BOOLEAN : SweepStep(i, u)
    \/ SweepCommit

\* camera 1 is captured; no job is inserted twice, so the unique constraint
\* plays no part
InitAfterJob ==
    /\ InitCommon
    /\ uq = TRUE
    /\ bq = NoBq
    /\ cam = [c \in Cameras |-> NewCamera(c = 1, 1, None, None)]
    /\ cfg = [k \in Configs |-> IF k = 1 THEN NewConfig(1) ELSE NoConfig]

SpecAfterJob == InitAfterJob /\ [][AfterJobNext]_vars

\* calls of the two encoders with every list of frame paths, existing or
\* not, and every outcome of the ffmpeg process
EncoderNext ==
    \/ \E impl \in EncoderImpls, n \in 0..MaxPaths, exist \in SUBSET Paths,
          out0 \in {"none", "empty", "video"} :
          \E image_paths \in [1..n -> Paths] :
              EncodeCall(impl, image_paths, exist, out0)
    \/ EncodeVerify
    \/ EncodePrepare
    \/ \E started \in BOOLEAN : EncodeSpawn(started)
    \/ \E exit \in {"timeout", "nonzero", "zero"}, written \in {"keep"} \cup OutputStates :
          EncodeWait(exit, written)

InitEncoder ==
    /\ InitCommon
    /\ uq = TRUE
    /\ bq = NoBq
    /\ cam = [c \in Cameras |-> NewCamera(TRUE, 1, None, None)]
    /\ cfg = [k \in Configs |-> NoConfig]

SpecEncoder == InitEncoder /\ [][EncoderNext]_vars

\* the worker's life: start, the scheduler's triggers, the jobs' runs, and
\* shutdown
SchedNext ==
    \/ WorkerStart
    \/ InitialHeartbeatDone
    \/ InitialCaptureDone
    \/ \E id \in SchedJobs : JobFire(id)
    \/ \E id \in SchedJobs : JobDone(id)
    \/ SchedTick
    \/ WorkerShutdown

InitSched ==
    /\ InitCommon
    /\ uq = TRUE
    /\ bq = NoBq
    /\ cam = [c \in Cameras |-> NewCamera(TRUE, 1, None, None)]
    /\ cfg = [k \in Configs |-> NoConfig]

SpecSched == InitSched /\ [][SchedNext]_vars


\* the jobs the API creates for past dates and the jobs a crash interrupts,
\* next to the scheduled runs of the worker.  The scheduled runs and the
\* passing of the days are fair; requests and crashes are not.
RecoveryNext ==
    \/ \E d1, d2 \in 0..(Day(now) - 1) : CreateTimelapse(1, d1, d2)
    \/ \E d1, d2 \in 0..(Day(now) - 1) : GenerateHistorical(1, d1, d2)
    \/ \E w \in {"partial", "keep"} : WorkerCrash(w)
    \/ StoreCaptureNext
    \/ GenStart
    \/ GenPick
    \/ \E o \in {"ok", "error"}, w \in {"video", "partial", "keep"},
          m \in {"historical", "prospective"} : GenEncodeDone(o, w, m)
    \/ GenEnd
    \/ \E c \in Cameras : DailyStart(c)
    \/ \E o \in {"ok", "error"}, w \in {"video", "partial", "keep"} :
          DailyEncodeDone(o, w)

SpecRecovery ==
    /\ InitVideo
    /\ [][RecoveryNext]_vars
    /\ WF_vars(NextDay)
    /\ WF_vars(GenStart \/ GenPick \/ GenEnd)
    /\ WF_vars(\E o \in {"ok", "error"}, w \in {"video", "partial", "keep"},
                  m \in {"historical", "prospective"} : GenEncodeDone(o, w, m))
    /\ WF_vars(\E c \in Cameras : DailyStart(c))
    /\ WF_vars(\E o \in {"ok", "error"}, w \in {"video", "partial", "keep"} :
                  DailyEncodeDone(o, w))


\* =============================================================== claims

\* C1: the steps of an image sweep leave every frame that was protected when
\* the sweep ran its query exactly as it was (row, file and protection), for
\* every retention window and camera scope
C1_SweepKeepsProtected ==
    [][sw' # sw =>
         \A i \in sw.before \cup sw'.before : image'[i] = image[i]]_vars

\* a sweep has deleted a file while a protected frame older than its cutoff
\* is still there
C1_Witness ==
    /\ sw.pc = "deleting"
    /\ sw.marked # {}
    /\ sw.prot > 0
    /\ \E i \in sw.before : image[i].rec /\ image[i].file /\ image[i].prot

\* C2: a user delete request leaves the row and the file of a protected
\* frame in place (every step that is not a sweep step keeps them)
C2_DeleteKeepsProtected ==
    [][sw' = sw =>
         \A i \in ImageIds :
            (image[i].rec /\ image[i].prot) =>
               (image'[i].rec /\ image'[i].file = image[i].file)]_vars

\* C3: every frame with protected=false has no protection reason and no
\* protecting config
C3_UnprotectedHasNoOwner ==
    \A i \in ImageIds :
        (image[i].rec /\ ~image[i].prot) =>
            (image[i].reason = "none" /\ image[i].cfg = 0)

\* C4: consecutiveErrors of every camera is the length of the trailing run
\* of failed capture attempts
C4_ErrorsAreTrailingFailures ==
    \A c \in Cameras : cam[c].errors = trail[c]

C6_DueAndBlackout ==
    [][/\ (cyc.pc = "idle" /\ cyc'.pc = "running") =>
            /\ \A c \in Cameras :
                 c \in Range(cyc'.cams) <=>
                    /\ cam[c].active
                    /\ ~InBlackout(c, now)
                    /\ (cam[c].lastAt = None \/ now - cam[c].lastAt >= cam[c].interval)
            /\ Len(cyc'.cams) = Cardinality(Range(cyc'.cams))
       /\ \A c \in Cameras :
            (InBlackout(c, now) /\ cyc.st[c] # "fetching") =>
               /\ cyc'.st[c] # "fetching"
               /\ cam'[c] = cam[c]
               /\ \A i \in ImageIds :
                    (image'[i].rec /\ image'[i].camera = c) => image[i].rec]_vars

\* a task found its camera in blackout, and a cycle runs while an active
\* camera in blackout is not part of it
C6_Witness ==
    /\ cyc.pc = "running"
    /\ \E c \in Cameras : cyc.st[c] = "done" /\ cyc.res[c].error = "blackout"

\* C7: with a bound unset is_in_blackout is false; with start > end it is
\* false exactly strictly between end and start; otherwise it is true
\* exactly from start to end
C7_BlackoutWindow ==
    (bq.kind = "blackout" /\ bq.done) =>
        IF bq.bs = None \/ bq.be = None
        THEN bq.out = FALSE
        ELSE IF bq.bs > bq.be
             THEN bq.out = ~(bq.be < bq.t /\ bq.t < bq.bs)
             ELSE bq.out = (bq.bs <= bq.t /\ bq.t <= bq.be)

\* an overnight window answered true for a time before its end
C7_Witness ==
    /\ bq.kind = "blackout" /\ bq.done
    /\ bq.bs # None /\ bq.be # None
    /\ bq.bs > bq.be /\ bq.t <= bq.be /\ bq.out = TRUE

C9_InFlightBounded == InFlight <= max_concurrent_captures

\* the semaphore is full while another task waits
C9_Witness ==
    /\ InFlight = max_concurrent_captures
    /\ \E c \in Cameras : cyc.st[c] = "waiting"

\* C10: every hour bucket of size m contributes min(k, m) of its own frames,
\* starting with its first frame, all of them when m <= k; the output is in
\* chronological order without repeats; empty input gives empty output
C10_SelectorPerBucket ==
    (bq.kind = "select" /\ bq.done) =>
        /\ (bq.frames = <<>> => bq.out = <<>>)
        /\ \A i \in 1..(Len(bq.out) - 1) : bq.out[i] < bq.out[i + 1]
        /\ \A h \in 0..(NumHours - 1) :
             LET b == hourly_bucket(bq.frames, h)
                 sel == hourly_bucket(bq.out, h)
             IN /\ Len(sel) = Min(bq.k, Len(b))
                /\ Range(sel) \subseteq Range(b)
                /\ (Len(b) >= 1 => sel[1] = b[1])
                /\ (Len(b) <= bq.k => sel = b)

\* one bucket was sampled (m > k >= 2) and another was taken whole
C10_Witness ==
    /\ bq.kind = "select" /\ bq.done
    /\ bq.k >= 2
    /\ Len(hourly_bucket(bq.frames, 0)) > bq.k
    /\ Len(hourly_bucket(bq.frames, 1)) \in 1..bq.k
    /\ Len(bq.out) = bq.k + Len(hourly_bucket(bq.frames, 1))


\* C11: a start-collection request for a config that is collecting is
\* answered with an error and changes no config and no frame
C11_StartWhileCollectingRejected ==
    [][\A k \in Configs :
         (/\ resp'.op = "start" /\ resp'.k = k
          /\ (resp' # resp \/ (cfg' # cfg /\ gen' = gen))
          /\ cfg[k].status = "collecting") =>
            (resp'.code = 400 /\ cfg' = cfg /\ image' = image)]_vars

\* a start request was turned away for a collecting config that owns a frame
C11_Witness ==
    /\ resp.op = "start" /\ resp.code = 400
    /\ cfg[resp.k].status = "collecting"
    /\ \E i \in ImageIds : image[i].rec /\ image[i].cfg = resp.k

\* C12: a start-collection request for a config whose status is not idle is
\* rejected and leaves the config unchanged
C12_StartOnlyFromIdle ==
    [][\A k \in Configs :
         (/\ resp'.op = "start" /\ resp'.k = k
          /\ (resp' # resp \/ (cfg' # cfg /\ gen' = gen))
          /\ cfg[k].status # "idle") =>
            (resp'.code = 400 /\ cfg' = cfg)]_vars

C14_DatesIffCollectingOrReady ==
    \A k \in Configs :
        cfg[k].camera # 0 =>
            ((cfg[k].start # None /\ cfg[k].end # None) <=>
                (cfg[k].mode = "prospective"
                    /\ cfg[k].status \in {"collecting", "ready"}))

\* C15: a config whose status is collecting has mode prospective
C15_CollectingIsProspective ==
    \A k \in Configs :
        cfg[k].status = "collecting" => cfg[k].mode = "prospective"

\* C16: when a capture cycle completes, every frame it captured is protected
\* with reason prospective and owned by each collecting config of its camera
\* whose collection period contains the frame's capture date
C16_NewFramesProtectedForEachConfig ==
    [][(cyc.pc = "running" /\ cyc'.pc = "ended") =>
         \A i \in ImageIds, k \in Configs :
            (/\ image[i].rec
             /\ cyc.res[image[i].camera].success
             /\ image[i].at = cyc.ts[image[i].camera]
             /\ k \in CollectingFor(image[i].camera, Day(image[i].at))) =>
                /\ image'[i].prot
                /\ image'[i].reason = "prospective"
                /\ image'[i].cfg = k]_vars

\* C17: a cancel-collection request for a config that is not collecting is
\* rejected without any change; an accepted one leaves the config idle with
\* dates and progress cleared, and changes frames only when unprotect_images
\* is set, and then clears protected, reason and owner on exactly the frames
\* the config owns
C17_CancelCollection ==
    [][\A k \in Configs :
         (/\ resp'.op = "cancel" /\ resp'.k = k
          /\ (resp' # resp \/ (cfg' # cfg /\ gen' = gen))) =>
            IF cfg[k].status # "collecting"
            THEN resp'.code = 400 /\ cfg' = cfg /\ image' = image
            ELSE /\ resp'.code = 200
                 /\ cfg'[k].status = "idle"
                 /\ cfg'[k].start = None /\ cfg'[k].end = None
                 /\ cfg'[k].progress = 0
                 /\ \A h \in Configs \ {k} : cfg'[h] = cfg[h]
                 /\ resp'.unprotected \in
                       {0, Cardinality({i \in ImageIds : image[i].rec /\ image[i].cfg = k})}
                 /\ \A i \in ImageIds :
                      image'[i] =
                         IF resp'.unprotected > 0 /\ image[i].rec /\ image[i].cfg = k
                         THEN [image[i] EXCEPT !.prot = FALSE, !.reason = "none",
                                               !.cfg = 0]
                         ELSE image[i]]_vars

\* a cancel with unprotect_images released the frames of one config while a
\* frame of another config stays protected
C17_Witness ==
    /\ resp.op = "cancel" /\ resp.code = 200 /\ resp.unprotected > 0
    /\ cfg[resp.k].status = "idle"
    /\ \E i, j \in ImageIds :
         /\ image[i].rec /\ ~image[i].prot /\ image[i].cfg = 0
         /\ image[j].rec /\ image[j].prot /\ image[j].cfg \notin {0, resp.k}

\* C18: when the encoder run of a prospective config's generation ends, a
\* success finds the config ready and leaves it completed with
\* last_generation_at set, and a failure leaves the config failed and the
\* video job failed with an error message; a config becomes completed only
\* from ready and only while one of its camera's video jobs is completed
C18_GenerationOutcome ==
    [][/\ (gen.pc = "encoding" /\ gen'.pc = "running"
              /\ cfg[gen.k].mode = "prospective") =>
            IF tl'[gen.job].status = "completed"
            THEN /\ cfg[gen.k].status = "ready"
                 /\ cfg'[gen.k].status = "completed"
                 /\ cfg'[gen.k].lastGen = now
            ELSE /\ cfg'[gen.k].status = "failed"
                 /\ tl'[gen.job].status = "failed"
                 /\ tl'[gen.job].error # "none"
       /\ \A k \in Configs :
            (cfg[k].status # "completed" /\ cfg'[k].status = "completed") =>
               /\ cfg[k].status = "ready"
               /\ \E j \in JobIds :
                    /\ tl'[j].rec /\ tl'[j].status = "completed"
                    /\ tl'[j].camera = cfg[k].camera]_vars

\* C19: when an encoder run of a daily or multi-day generation fails (error
\* or timeout), no frame is deleted, no frame is unprotected, every video
\* job that is completed stays as it is, and every video file that was
\* written by a completed generation stays as it is
C19_FailureLeavesFramesAndVideos ==
    [][(\/ /\ gen.pc = "encoding" /\ gen'.pc = "running"
           /\ tl'[gen.job].status = "failed"
        \/ /\ dly.pc = "encoding" /\ dly'.pc = "idle"
           /\ tl'[dly.job].status = "failed") =>
          /\ \A i \in ImageIds :
               image[i].rec =>
                  /\ image'[i].rec
                  /\ image[i].prot => image'[i].prot
          /\ \A j \in JobIds :
               /\ tl[j].status = "completed" => tl'[j] = tl[j]
               /\ (tl[j].rec /\ tl[j].file = "video") => tl'[j].file = "video"]_vars

\* C20: a video job whose status is completed or failed keeps that status
\* in every step that does not delete the job
C20_TerminalStatusIsFinal ==
    [][\A j \in JobIds :
         (tl[j].rec /\ tl[j].status \in {"completed", "failed"}) =>
            (tl'[j].status = tl[j].status \/ ~tl'[j].rec)]_vars


\* C21: no two video jobs have the same camera, type, start date and end
\* date
C21_JobKeyUnique ==
    \A i, j \in JobIds :
        (i # j /\ tl[i].rec /\ tl[j].rec) => ~SamePath(tl[i], tl[j])

\* C22: a video job that is pending or processing eventually becomes
\* completed or failed
C22_NoJobLeaked ==
    \A j \in JobIds :
        (tl[j].rec /\ tl[j].status \in {"pending", "processing"})
            ~> (tl[j].status \in {"completed", "failed"})

C24_OneInstancePerJob ==
    sched.up =>
        /\ \A id \in SchedJobs : sched.running[id] <= 1
        /\ capture_cycles_executing <= 1

C26_EncodeOutcome ==
    (enc.pc = "done" /\ enc.proc # "none") =>
        \/ enc.exit = "timeout" /\ enc.proc = "killed" /\ enc.result = "TimeoutError"
        \/ enc.exit = "nonzero" /\ enc.result = "RuntimeError" /\ enc.diag
        \/ /\ enc.exit = "zero"
           /\ enc.result \in {"ok", "RuntimeError"}
           /\ enc.result = "ok" => enc.out \notin {"none", "empty"}

\* C27: from a bucket of m frames sampled at k < m frames per hour the
\* selected indices are exactly floor(i * m / k) for i = 0..k-1; index 0
\* is always among them and the last index m - 1 never; m = 5, k = 2
\* gives {0, 2}
C27_SampledIndices ==
    (bq.kind = "sample" /\ bq.done) =>
        /\ bq.out = [n \in 1..bq.k |-> ((n - 1) * bq.m) \div bq.k]
        /\ 0 \in Range(bq.out)
        /\ bq.m - 1 \notin Range(bq.out)
        /\ (bq.m = 5 /\ bq.k = 2) => Range(bq.out) = {0, 2}

\* C28: every generation, historical and prospective, encodes exactly what
\* the frame selector gives over the job's window with the config's
\* images_per_hour, so no hour bucket contributes more than images_per_hour
\* frames
C28_EncodesSelectorOutput ==
    [][(gen.pc = "running" /\ gen'.pc = "encoding") =>
          LET k == gen'.k
              j == gen'.job
          IN /\ gen'.sel = Range(select_images_for_range(
                                    cfg[k].camera, tl'[j].start, tl'[j].end,
                                    cfg[k].perHour))
             /\ \A d \in 0..MaxDay :
                    Cardinality({i \in gen'.sel : Day(image[i].at) = d})
                        <= cfg[k].perHour]_vars

\* C29: advancing the progress of a config sets its progress to
\* min(today - start + 1, days_to_include), moves a collecting config to
\* ready exactly when today is past its end date (started on day D for N
\* days it is still collecting on D + N - 1 and ready on D + N), and never
\* changes the status of a config that is not collecting
C29_AdvanceProgress ==
    [][\A k \in Configs :
          (/\ resp'.op = "advance" /\ resp'.k = k
           /\ gen' = gen
           /\ resp' # resp \/ cfg' # cfg) =>
             /\ cfg[k].start # None =>
                    cfg'[k].progress = Min(Day(now) - cfg[k].start + 1, cfg[k].days)
             /\ cfg[k].status = "collecting" =>
                    cfg'[k].status = IF Day(now) > cfg[k].end THEN "ready"
                                     ELSE "collecting"
             /\ cfg[k].status # "collecting" => cfg'[k].status = cfg[k].status]_vars

\* C30: while a generation for a config is in progress a second generation
\* request for the same config id is rejected and creates no second video
\* job
C30_SecondRequestRejected ==
    [][\A k \in Configs :
          (/\ resp'.op = "generate" /\ resp'.k = k /\ resp' # resp
           /\ gen.pc = "encoding" /\ gen.k = k) =>
             /\ resp'.code \notin {0, 200}
             /\ tl' = tl]_vars

\* C31: every video job is created pending; while its status is processing
\* its started_at is set; once its status is completed or failed its
\* completed_at is set, and a failed job carries an error message
C31_JobLifecycleStamps ==
    \A j \in JobIds :
        tl[j].rec =>
            /\ tl[j].createdAs = "pending"
            /\ tl[j].status = "processing" => tl[j].startedAt
            /\ tl[j].status \in {"completed", "failed"} => tl[j].completedAt
            /\ tl[j].status = "failed" => tl[j].error # "none"

\* C32: in a sweep a candidate whose file is already missing has its record
\* deleted without error; a candidate whose existing file cannot be deleted
\* keeps its record and is not retried, and the sweep goes on with the
\* remaining candidates; no record is deleted while its file exists
C32_SweepFileFailures ==
    [][sw' # sw =>
         /\ \A i \in sw.todo \ sw'.todo :
                /\ sw'.pc = "deleting"
                /\ sw'.todo = sw.todo \ {i}
                /\ ~image[i].file => i \in sw'.marked /\ image' = image
                /\ (image[i].file /\ image'[i].file) =>
                       /\ i \notin sw'.marked
                       /\ image' = image
         /\ \A i \in ImageIds :
                (image[i].rec /\ ~image'[i].rec) => ~image[i].file
         /\ (sw.pc = "deleting" /\ sw'.pc = "idle" /\ image' # image) =>
                \A i \in ImageIds :
                   /\ i \in sw.marked => ~image'[i].rec
                   /\ i \in sw.cand \ sw.marked => image'[i] = image[i]]_vars

\* a sweep has gone through its candidates: one had lost its file before
\* and is marked for deletion, another still has the file that could not be
\* deleted and keeps its record
C32_Witness ==
    /\ sw.pc = "deleting" /\ sw.todo = {}
    /\ Cardinality(sw.marked) > sw.files
    /\ \E i \in sw.cand \ sw.marked : image[i].rec /\ image[i].file

protect_images_frame(f) ==
    IF ~f.prot THEN [f EXCEPT !.prot = TRUE] ELSE f

\* the count protect_images returns: the frames it found unprotected
protect_images_count(S) ==
    Cardinality({i \in S : ~image[i].prot})

ProtectImages(S) ==
    /\ \A i \in S : image[i].rec
    /\ image' = [i \in ImageIds |->
                    IF i \in S THEN protect_images_frame(image[i]) ELSE image[i]]
    /\ resp' = [NoResp EXCEPT !.op = "protect_images", !.code = 200,
                              !.img = S, !.count = protect_images_count(S)]
    /\ UNCHANGED <<now, cam, nimg, cfg, cyc, sw, trail, bq, tl, gen, dly, uq, sched, enc, hm>>

protect_image_for_config_always(f, k) ==
    [f EXCEPT !.prot = TRUE, !.reason = "prospective", !.cfg = k]

\* MultidayTimelapseService.protect_image_for_config on one frame: a frame
\* the config already owns is returned as it is
protect_image_for_config(f, k) ==
    IF f.cfg = k THEN f
    ELSE [f EXCEPT !.prot = TRUE, !.reason = "prospective", !.cfg = k]

\* its return value: 1 for True (protected now), 0 for False
protect_image_for_config_result(f, k) ==
    IF f.cfg = k THEN 0 ELSE 1

ProtectImageForConfig(i, k) ==
    /\ image[i].rec
    /\ cfg[k].camera # 0
    /\ image' = [image EXCEPT ![i] = protect_image_for_config(@, k)]
    /\ resp' = [NoResp EXCEPT !.op = "protect_for_config", !.code = 200,
                              !.k = k, !.img = {i},
                              !.count = protect_image_for_config_result(image[i], k)]
    /\ UNCHANGED <<now, cam, nimg, cfg, cyc, sw, trail, bq, tl, gen, dly, uq, sched, enc, hm>>

\* captures, manual protection and the two protect calls of the service
ProtectNext ==
    \/ StoreCaptureNext
    \/ \E i \in ImageIds, flag \in BOOLEAN : ProtectImage(i, flag, "manual")
    \/ \E S \in SUBSET ImageIds : ProtectImages(S)
    \/ \E i \in ImageIds, k \in Configs : ProtectImageForConfig(i, k)

InitProtect ==
    /\ InitCommon
    /\ uq = TRUE
    /\ bq = NoBq
    /\ cam = [c \in Cameras |-> NewCamera(c = 1, 1, None, None)]
    /\ cfg = [k \in Configs |-> NewConfig(1)]

SpecProtect == InitProtect /\ [][ProtectNext]_vars

notify_result(n) == IF notify_raises(n) THEN "raises" ELSE "true"

\* capture cycles where camera 1 answers and the other cameras time out, and
\* multi-day generation, with every outcome of the notification calls
NotifyNext ==
    \/ CycleStart
    \/ \E c \in Cameras : TaskAcquire(c)
    \/ TaskComplete(1, "ok", FALSE)
    \/ \E c \in Cameras \ {1} : TaskComplete(c, "timeout", FALSE)
    \/ \E n \in NotifyOutcomes : CycleEndNotify(n)
    \/ CycleReturn
    \/ NextDay
    \/ \E k \in Configs, n \in 1..MaxDaysToCollect : StartCollection(k, n)
    \/ GenStart
    \/ GenPick
    \/ \E o \in {"ok", "error"}, w \in {"video", "partial", "keep"},
          n \in NotifyOutcomes, c \in BOOLEAN :
          GenEncodeDoneNotify(o, w, "prospective", n, c)
    \/ GenEnd

\* both cameras are captured; camera 1 has a config created with
\* mode=prospective
InitNotify ==
    /\ InitCommon
    /\ uq = TRUE
    /\ bq = NoBq
    /\ cam = [c \in Cameras |-> NewCamera(TRUE, 1, None, None)]
    /\ cfg = [k \in Configs |->
                IF k = 1 THEN [NewConfig(1) EXCEPT !.mode = "prospective"]
                ELSE NoConfig]

SpecNotify == InitNotify /\ [][NotifyNext]_vars

\* C35: a notification that fails, in the send or in its preparation, is
\* reported as false and changes nothing else: the capture cycle is not
\* aborted, no Camera, VideoJob or CollectionConfig changes its status because
\* of it, the frames of the captured cameras are still protected for their
\* collecting configs, and a generation whose video was encoded ends with the
\* job completed and its prospective config completed
C35_NotificationBestEffort ==
    [][/\ (cyc.pc = "running" /\ cyc'.pc = "ended"
              /\ cyc'.ntf \in {"send_failed", "query_failed"}) =>
             /\ notify_result(cyc'.ntf) = "false"
             /\ ~cyc'.aborted
             /\ cam' = cam /\ cfg' = cfg /\ tl' = tl
             /\ LET captured == {cyc'.results[i].camera :
                                   i \in {j \in 1..Len(cyc'.results) :
                                            cyc'.results[j].success}}
                IN \E owner \in Owners(captured, Day(now)) :
                      image' = protect_images_for_prospective(
                                  captured, Day(now), owner)
       /\ (gen.pc = "encoding" /\ gen'.pc = "running"
              /\ gen'.ntf \in {"send_failed", "query_failed"}) =>
             /\ notify_result(gen'.ntf) = "false"
             /\ cam' = cam
             /\ tl'[gen.job].status = "completed"
             /\ cfg[gen.k].mode = "prospective" =>
                   cfg'[gen.k].status = "completed"]_vars

\* ------------------------------------------ manual protection and collection
\* a user protects frames by hand while collections are started, fed by
\* capture cycles and cancelled
ManualNext ==
    \/ StoreCaptureNext
    \/ \E i \in ImageIds : ProtectImage(i, TRUE, "manual")
    \/ \E k \in Configs, n \in 1..MaxDaysToCollect : StartCollection(k, n)
    \/ \E k \in Configs, u \in BOOLEAN : CancelCollection(k, u)

SpecManual == InitCollect /\ [][ManualNext]_vars

\* C36: a frame a user has protected by hand stays protected through
\* startCollection, capture cycles and cancelCollection: no step clears its
\* flag, and no config becomes the owner of a frame that had none
C36_ManualProtectionKept ==
    [][\A i \in ImageIds :
          (image[i].rec /\ image[i].prot /\ image[i].reason = "manual") =>
             /\ image'[i].prot
             /\ image[i].cfg = 0 => image'[i].cfg = 0]_vars

\* ------------------------------------------- generation next to cleanup
\* the scheduler's daily-timelapse and cleanup jobs on one event loop: the
\* daily job waits for its encoder while the sweep of run_cleanup runs
RaceNext ==
    \/ StoreCaptureNext
    \/ Tick
    \/ \E c \in Cameras : DailyStart(c)
    \/ \E o \in {"ok", "error"}, w \in {"video", "partial", "keep"} :
          DailyEncodeDone(o, w)
    \/ \E r \in 1..MaxRetention : SweepStart(0, r)
    \/ \E i \in ImageIds : SweepStep(i, TRUE)
    \/ SweepCommit

SpecRace == InitAfterJob /\ [][RaceNext]_vars

\* C37: while a job is processing, no frame of its input set is deleted:
\* neither the row nor the file of a frame the job selected goes away before
\* the encoder has finished
C37_InputFramesSurviveEncode ==
    [][dly.pc = "encoding" =>
          \A i \in dly.sel :
             /\ image[i].rec => image'[i].rec
             /\ image[i].file => image'[i].file]_vars

\* ------------------------------------------- the end of a collection
\* collections are started and fed by capture cycles, the days pass, and the
\* scheduled multi-day job runs.  The job's steps and the passing of the days
\* are fair; requests and capture cycles are not.  Collections are started
\* on idle configs only, so that no request moves a window that has ended.
StartIdleCollection(k, n) ==
    /\ cfg[k].status = "idle"
    /\ StartCollection(k, n)

ReadyNext ==
    \/ \E k \in Configs, n \in 1..MaxDaysToCollect : StartIdleCollection(k, n)
    \/ StoreCaptureNext
    \/ GenStart
    \/ GenPick
    \/ \E o \in {"ok", "error"}, w \in {"video", "partial", "keep"},
          m \in {"historical", "prospective"} : GenEncodeDone(o, w, m)
    \/ GenEnd

SpecReady ==
    /\ InitGeneration
    /\ [][ReadyNext]_vars
    /\ WF_vars(NextDay)
    /\ WF_vars(GenStart \/ GenPick \/ GenEnd)
    /\ WF_vars(\E o \in {"ok", "error"}, w \in {"video", "partial", "keep"},
                  m \in {"historical", "prospective"} : GenEncodeDone(o, w, m))

\* the collection window of config k has ended and the config still collects
WindowEnded(k) ==
    /\ cfg[k].camera # 0
    /\ cfg[k].mode = "prospective"
    /\ cfg[k].status = "collecting"
    /\ cfg[k].end # None
    /\ cfg[k].end < Day(now)

\* C38: with the multi-day job scheduled fairly, a prospective config whose
\* window has ended becomes ready, and a ready config becomes completed or
\* failed: none stays ready forever, whether or not it owns frames and
\* whether or not a job for its window exists
C38_ReadyConfigsFinish ==
    \A k \in Configs :
       /\ WindowEnded(k) ~> (cfg[k].status = "ready")
       /\ (cfg[k].mode = "prospective" /\ cfg[k].status = "ready")
             ~> (cfg[k].status \in {"completed", "failed"})

\* ------------------------------------------- the selector of the service
\* select_images_for_config past its query: hourly_buckets, keyed by the
\* hour of captured_at, each bucket in the order of all_images
config_hourly_buckets(all_images) ==
    [h \in {Hour(all_images[i]) : i \in 1..Len(all_images)} |->
        SelectSeq(all_images, LAMBDA t : Hour(t) = h)]

\* a selection that takes the first `count` frames of the bucket
config_bucket_selection_first(images, images_per_hour) ==
    SubSeq(images, 1, Min(images_per_hour, Len(images)))

\* what one bucket adds to `selected`
config_bucket_selection(images, images_per_hour) ==
    LET count == Min(images_per_hour, Len(images))
    IN IF count = Len(images)
       THEN images
       ELSE [i \in 1..count |->
               images[sample_index(i - 1, Len(images), count) + 1]]

\* the loop `for hour_key in sorted(hourly_buckets.keys())`, from hour h on
RECURSIVE config_selected_from(_, _, _)
config_selected_from(buckets, h, images_per_hour) ==
    IF \A x \in DOMAIN buckets : x < h THEN <<>>
    ELSE (IF h \in DOMAIN buckets
          THEN config_bucket_selection(buckets[h], images_per_hour)
          ELSE <<>>)
         \o config_selected_from(buckets, h + 1, images_per_hour)

select_images_for_config(all_images, images_per_hour) ==
    IF all_images = <<>> THEN <<>>
    ELSE config_selected_from(config_hourly_buckets(all_images), 0,
                              images_per_hour)

\* both selectors are applied to the drawn frames and images_per_hour
ApplyBoth ==
    /\ bq.kind = "both"
    /\ ~bq.done
    /\ bq' = [bq EXCEPT !.done = TRUE,
                        !.out = select_images_for_multiday(bq.frames, bq.k),
                        !.out2 = select_images_for_config(bq.frames, bq.k)]
    /\ UNCHANGED <<now, cam, image, nimg, cfg, cyc, sw, trail, resp, tl, gen, dly, uq, sched, enc, hm>>

\* the result of the query both selectors run: the frames of one camera in
\* the window, ordered by captured_at
InitBoth ==
    /\ InitCommon
    /\ uq = TRUE
    /\ cam = [c \in Cameras |-> NewCamera(TRUE, 1, None, None)]
    /\ cfg = [k \in Configs |-> IF k = 1 THEN NewConfig(1) ELSE NoConfig]
    /\ bq \in {[kind |-> "both", frames |-> SetToSeq(S), k |-> k,
                done |-> FALSE, out |-> <<>>, out2 |-> <<>>] :
                  S \in SUBSET Stamps, k \in 1..MaxPerHour}

SpecBoth == InitBoth /\ [][ApplyBoth]_vars

\* C39: for every ordered frame list and images_per_hour the selector of the
\* worker and the selector of the service return the same frame sequence
C39_SelectorsAgree ==
    (bq.kind = "both" /\ bq.done) => bq.out = bq.out2

\* both selectors were applied to frames of two hours, one of which holds
\* more frames than images_per_hour, and returned a proper sample
C39_Witness ==
    /\ bq.kind = "both" /\ bq.done
    /\ bq.out = bq.out2
    /\ bq.out # <<>>
    /\ Len(bq.out) < Len(bq.frames)
    /\ Cardinality({Hour(bq.frames[i]) : i \in 1..Len(bq.frames)}) = NumHours
    /\ \E h \in 0..(NumHours - 1) :
          /\ Len(hourly_bucket(bq.frames, h)) > bq.k
          /\ bq.k > 1

\* ------------------------------------------------------- health monitor
\* settings.alert_cooldown_minutes (ge=1), in ticks
alert_cooldown == 1

\* ConnectivityChecker.check: the tuple (is_reachable, response_time_ms)
connectivity_check(reachable) ==
    <<reachable, IF reachable THEN 1 ELSE None>>

\* the truth value Python gives a tuple: true unless it is empty
truthy(t) == Len(t) > 0

\* HealthAlerter._can_alert
can_alert(c, t) ==
    \/ hm.last[c][t] = None
    \/ now - hm.last[c][t] > alert_cooldown

\* _last_alerts after _record_alert for the pairs of `sent`
record_alerts(sent) ==
    [c \in Cameras |-> [t \in AlertTypes |->
        IF <<c, t>> \in sent THEN now ELSE hm.last[c][t]]]

\* HealthMonitor.run_health_checks: for every active camera the connectivity
\* check, and alert_camera_down when `not is_reachable`, where is_reachable
\* is the tuple the check returned.  alert_camera_down records the alert
\* when notify_camera_down returned True; a call that raises is caught by
\* the loop.
HealthPass(reach, n) ==
    /\ LET active == {c \in Cameras : cam[c].active}
           result == [c \in Cameras |-> connectivity_check(reach[c])]
           attempted == {c \in active : ~truthy(result[c])}
           sent == {<<c, "camera_down">> : c \in
                       {a \in attempted : /\ can_alert(a, "camera_down")
                                          /\ notify_result(n) = "true"}}
       IN hm' = [op |-> "health",
                 last |-> record_alerts(sent),
                 unreachable |-> {c \in active : ~result[c][1]},
                 attempted |-> {<<c, "camera_down">> : c \in attempted},
                 sent |-> sent]
    /\ UNCHANGED <<now, cam, image, nimg, cfg, cyc, sw, trail, bq, resp, tl, gen, dly, uq, sched, enc>>

\* HealthMonitor.run_image_quality_checks: alert_blank_image and
\* alert_frozen_image for the active cameras whose checks say so; each
\* records the alert when send_notification returned True
QualityPass(blank, frozen, n) ==
    /\ LET active == {c \in Cameras : cam[c].active}
           attempted == {<<c, "blank_image">> : c \in {a \in active : blank[a]}}
                           \cup {<<c, "frozen_image">> : c \in {a \in active : frozen[a]}}
           sent == {p \in attempted : can_alert(p[1], p[2]) /\ send_notification(n)}
       IN hm' = [op |-> "quality",
                 last |-> record_alerts(sent),
                 unreachable |-> {},
                 attempted |-> attempted,
                 sent |-> sent]
    /\ UNCHANGED <<now, cam, image, nimg, cfg, cyc, sw, trail, bq, resp, tl, gen, dly, uq, sched, enc>>

\* the two loops of the monitor while the clock runs
HealthNext ==
    \/ Tick
    \/ \E reach \in [Cameras -> BOOLEAN], n \in NotifyOutcomes : HealthPass(reach, n)
    \/ \E blank \in [Cameras -> BOOLEAN], frozen \in [Cameras -> BOOLEAN],
          n \in {"sent", "send_failed"} : QualityPass(blank, frozen, n)

\* every camera is active, or only camera 1
InitHealth ==
    /\ InitCommon
    /\ uq = TRUE
    /\ bq = NoBq
    /\ \E a \in BOOLEAN : cam = [c \in Cameras |-> NewCamera(c = 1 \/ a, 1, None, None)]
    /\ cfg = [k \in Configs |-> NoConfig]

SpecHealth == InitHealth /\ [][HealthNext]_vars

\* C40: in a health-check pass every active camera the connectivity check
\* reports unreachable gets a camera-down alert attempted, which only an
\* active camera_down cooldown of that camera keeps from being sent; and in
\* every pass no alert is sent for a (camera, alert type) pair whose last
\* alert is not older than the cooldown
C40_UnreachableCamerasAlerted ==
    [][/\ (hm'.op = "health" /\ hm' # hm) =>
             \A c \in hm'.unreachable : <<c, "camera_down">> \in hm'.attempted
       /\ hm' # hm =>
             \A c \in Cameras, t \in AlertTypes :
                ~can_alert(c, t) => <<c, t>> \notin hm'.sent]_vars


====
